---- MODULE Spec2Model ----
(***************************************************************************)
(* Model of the voice capture pipeline of src/mumble/AudioInput.cpp:       *)
(*   - the Resynchronizer (addMic / addSpeaker / reset / destructor) as    *)
(*     driven by AudioInput::addMic, AudioInput::addEcho and               *)
(*     AudioInput::resetAudioProcessor;                                    *)
(*   - the bandwidth governor (getNetworkBandwidth, adjustBandwidth,       *)
(*     setMaxBandwidth);                                                   *)
(*   - the frame pipeline (encodeAudioFrame, selectCodec, flushCheck):     *)
(*     transmission decision, codec framing and packets.                   *)
(***************************************************************************)
EXTENDS Integers, Sequences, FiniteSets, TLC

VARIABLES
    \* ---- Resynchronizer (fields) -------------------------------------
    state,            \* Resynchronizer::state
    micQueue,         \* Resynchronizer::micQueue, a list of mic buffers
    \* ---- AudioInput fields used by the echo path -----------------------
    bResetProcessor,  \* AudioInput::bResetProcessor
    \* ---- speaker (echo) thread: AudioInput::addEcho --------------------
    spkPc,            \* position of the speaker thread inside addEcho
    outbuff,          \* the speaker buffer allocated by addEcho (0: none)
    chunk,            \* the AudioChunk returned by resync.addSpeaker
    \* ---- heap bookkeeping ----------------------------------------------
    micCount,         \* mic buffers allocated so far (new short[] in addMic)
    spkCount,         \* speaker buffers allocated so far (new short[] in addEcho)
    micFreed,         \* per mic buffer: number of delete[] applied to it
    spkFreed,         \* per speaker buffer: number of delete[] applied to it
    destroyed,        \* ~Resynchronizer has run
    \* ---- observation of the last Resynchronizer call -------------------
    last,             \* what the last call was and what it did
    lastPair,         \* the pair emitted last
    prevPair,         \* the pair emitted before lastPair
    frontOnEmpty,     \* front()/pop_front() was applied to an empty micQueue
    nPairs,           \* pairs emitted by addSpeaker
    nDropMic,         \* mic frames released by addMic (overflow)
    nDropSpk,         \* speaker frames dropped by addSpeaker (underflow)
    nResetFreed       \* mic frames released by reset

VARIABLES
    \* ---- settings and globals read by the bandwidth governor ----------
    sQuality,         \* Global::get().s.iQuality
    sFrames,          \* Global::get().s.iFramesPerPacket
    sAllowLowDelay,   \* Global::get().s.bAllowLowDelay
    sPosition,        \* Global::get().s.bTransmitPosition
    tcpMode,          \* NetworkConfig::TcpModeEnabled()
    iMaxBandwidth,    \* Global::get().iMaxBandwidth
    aiExists,         \* Global::get().ai is non-null
    iAudioQuality,    \* AudioInput::iAudioQuality of Global::get().ai
    iAudioFrames,     \* AudioInput::iAudioFrames of Global::get().ai
    bAllowLowDelay,   \* AudioInput::bAllowLowDelay of Global::get().ai
    iAudioBandwidth,  \* Global::get().iAudioBandwidth
    lastBw            \* observation of the last governor call

VARIABLES
    \* ---- settings and globals read by encodeAudioFrame ------------------
    env,              \* the settings, and the values the globals may take
    \* ---- AudioInput fields of the frame pipeline -----------------------
    iFrameCounter,    \* AudioInput::iFrameCounter
    iSilentFrames,    \* AudioInput::iSilentFrames
    iHoldFrames,      \* AudioInput::iHoldFrames
    iBufferedFrames,  \* AudioInput::iBufferedFrames
    bPreviousVoice,   \* AudioInput::bPreviousVoice
    bResetEncoder,    \* AudioInput::bResetEncoder
    m_codec,          \* AudioInput::m_codec
    cCodec,           \* AudioInput::cCodec as its bitstream version (0: null)
    qlFrames,         \* AudioInput::qlFrames, the encoded frames not sent yet
    opusBuffer,       \* AudioInput::opusBuffer, one entry per 10 ms of samples
    iBitrate,         \* AudioInput::iBitrate
    activityState,    \* AudioInput::activityState
    tIdle,            \* seconds elapsed on AudioInput::tIdle
    \* ---- observation of the frame pipeline ------------------------------
    nFrames,          \* calls of encodeAudioFrame so far
    nPackets,         \* packets emitted by flushCheck so far (where env.count)
    lastPacket,       \* the packet emitted last
    lastFrame,        \* what the last encodeAudioFrame call saw and did
    hist              \* what has happened since construction

VARIABLES
    \* ---- AudioInputRegistrar ------------------------------------------
    qmNew,            \* AudioInputRegistrar::qmNew: null, or the map name -> registrar
    regs,             \* the AudioInputRegistrar objects constructed so far
    qsAudioInput,     \* Global::get().s.qsAudioInput, the saved setting
    current,          \* AudioInputRegistrar::current
    lastNew           \* observation of the last newFromChoice call

resyncVars == <<state, micQueue, bResetProcessor, spkPc, outbuff, chunk, micCount,
                spkCount, micFreed, spkFreed, destroyed, last, lastPair, prevPair,
                frontOnEmpty, nPairs, nDropMic, nDropSpk, nResetFreed>>

bwVars == <<sQuality, sFrames, sAllowLowDelay, sPosition, tcpMode, iMaxBandwidth,
            aiExists, iAudioQuality, iAudioFrames, bAllowLowDelay, iAudioBandwidth,
            lastBw>>

encVars == <<env, iFrameCounter, iSilentFrames, iHoldFrames, iBufferedFrames,
             bPreviousVoice, bResetEncoder, m_codec, cCodec, qlFrames, opusBuffer,
             iBitrate, activityState, tIdle, nFrames, nPackets, lastPacket, lastFrame, hist>>

regVars == <<qmNew, regs, qsAudioInput, current, lastNew>>

vars == <<resyncVars, bwVars, encVars, regVars>>

(***************************************************************************)
(* Bounds of the model.                                                    *)
(***************************************************************************)
MaxMic == 8        \* mic frames delivered by the mic thread
MaxSpk == 6        \* speaker frames delivered by the speaker thread
MaxQualityK == 2   \* s.iQuality ranges over 8000 and 64000 - 24000 * (0..MaxQualityK-1)
MaxCapK == 4       \* the server cap ranges over 16000 * (2..MaxCapK), and these + 1
MaxFrames == 7     \* frames handed to encodeAudioFrame in a short run
MaxMuteFrames == 4 \* frames encoded while the mute sources vary
MaxCodecFrames == 4 \* frames encoded while the codec advertisement varies
MaxIdleFrames == 5  \* frames encoded while the idle timer runs
MaxIdleTime == 2    \* s.iIdleTime ranges over 0..MaxIdleTime seconds
MaxReg == 3         \* AudioInputRegistrar objects constructed
MaxName == 2        \* backend names 0..MaxName in QMap key order, 0 the empty string
MaxPriority == 1    \* backend priorities 0..MaxPriority
MaxPttFrames == 3   \* frames encoded while the double-push values vary
MaxTearFrames == 2  \* frames encoded while the control thread writes s.lmLoopMode
MaxLevel == 3      \* signal levels 0..MaxLevel; fVADmin is 1 and fVADmax is 2
MaxSilence == 505  \* frames handed to encodeAudioFrame in a long run

\* encodeAudioFrame: if (iSilentFrames > 500) iFrameCounter = 0;
SilentLimit == 500

(***************************************************************************)
(* Resynchronizer                                                          *)
(***************************************************************************)
States == {"S0", "S1a", "S1b", "S2", "S3", "S4a", "S4b", "S5"}

Null == 0          \* nullptr
Wild == -1         \* what front() of an empty list yields: no buffer at all

EmptyChunk == [mic |-> Null, speaker |-> Null]

ChunkEmpty(c) == c.mic = Null

\* delete[] b: one more release of buffer b (saturating at 2 = released twice)
Free(f, b) == IF b \in DOMAIN f THEN [f EXCEPT ![b] = IF @ < 2 THEN @ + 1 ELSE 2] ELSE f

Occurrences(q, b) == Cardinality({i \in 1..Len(q) : q[i] = b})

\* faulty variant of FreeAll: the queue is cleared without delete[]
FreeAllLeak(f, q) == f

\* the while loop of reset(): delete[] of every element of the queue
FreeAll(f, q) ==
    [b \in DOMAIN f |-> IF f[b] + Occurrences(q, b) < 2 THEN f[b] + Occurrences(q, b) ELSE 2]

\* micQueue.front(): the head, or, on an empty list, any pointer whatsoever
Front(q) == IF q # <<>> THEN {Head(q)} ELSE (1..micCount) \cup {Wild}

\* micQueue.pop_front()
PopFront(q) == IF q # <<>> THEN Tail(q) ELSE q

\* faulty variant of PushBack: the new frame goes to the head
PushFront(q, mic) == <<mic>> \o q

\* micQueue.push_back(mic)
PushBack(q, mic) == Append(q, mic)

\* faulty variant of AddMicNext: S4b moves on to S5
AddMicNextNoCap(s) ==
    CASE s = "S0" -> "S1a" [] s = "S1a" -> "S2" [] s = "S1b" -> "S2" [] s = "S2" -> "S3"
      [] s = "S3" -> "S4a" [] s = "S4a" -> "S5" [] s = "S4b" -> "S5" [] s = "S5" -> "S5"

\* the switch of addMic: the next state
AddMicNext(s) ==
    CASE s = "S0" -> "S1a" [] s = "S1a" -> "S2" [] s = "S1b" -> "S2" [] s = "S2" -> "S3"
      [] s = "S3" -> "S4a" [] s = "S4a" -> "S5" [] s = "S4b" -> "S4b" [] s = "S5" -> "S5"

\* faulty variant of AddMicDrop: S4b does not drop
AddMicDropOnlyS5(s) == s = "S5"

\* faulty variant of AddMicDrop: no overflow drop
AddMicDropNever(s) == FALSE

\* the switch of addMic: drop = true
AddMicDrop(s) == s \in {"S4b", "S5"}

\* the switch of addSpeaker: the next state
AddSpeakerNext(s) ==
    CASE s = "S0" -> "S0" [] s = "S1a" -> "S1a" [] s = "S1b" -> "S0" [] s = "S2" -> "S1b"
      [] s = "S3" -> "S2" [] s = "S4a" -> "S3" [] s = "S4b" -> "S3" [] s = "S5" -> "S4b"

\* faulty variant of AddSpeakerDrop: S1a pairs instead of dropping
AddSpeakerDropOnlyS0(s) == s = "S0"

\* faulty variant of AddSpeakerDrop: no underflow drop
AddSpeakerDropNever(s) == FALSE

\* the switch of addSpeaker: drop = true
AddSpeakerDrop(s) == s \in {"S0", "S1a"}

\* Resynchronizer::addMic(mic), the whole body (it runs under the mutex)
ResyncAddMic(mic) ==
    LET pushed == PushBack(micQueue, mic)
        drop == AddMicDrop(state)
    IN  /\ state' = AddMicNext(state)
        /\ micQueue' = IF drop THEN PopFront(pushed) ELSE pushed
        /\ micFreed' = IF drop THEN Free(micFreed, Head(pushed)) ELSE micFreed
        /\ nDropMic' = IF drop THEN nDropMic + 1 ELSE nDropMic
        /\ last' = [op |-> "addMic", pre |-> state, arg |-> mic, q |-> micQueue,
                    freed |-> IF drop THEN {Head(pushed)} ELSE {}]

\* AudioInput::addMic with echo cancellation on: a complete frame is handed
\* to the resynchronizer in a freshly allocated buffer
AddMic ==
    /\ ~destroyed
    /\ micCount < MaxMic
    /\ micCount' = micCount + 1
    /\ ResyncAddMic(micCount + 1)
    /\ UNCHANGED <<bResetProcessor, spkPc, outbuff, chunk, spkCount, spkFreed, destroyed,
                   lastPair, prevPair, frontOnEmpty, nPairs, nDropSpk, nResetFreed>>
    /\ UNCHANGED <<bwVars, encVars, regVars>>

\* Resynchronizer::addSpeaker(speaker), the part under the mutex
ResyncAddSpeaker(speaker) ==
    LET drop == AddSpeakerDrop(state)
    IN  /\ state' = AddSpeakerNext(state)
        /\ IF drop
             THEN /\ chunk' = EmptyChunk
                  /\ UNCHANGED <<micQueue, frontOnEmpty, nPairs, lastPair, prevPair>>
                  /\ nDropSpk' = nDropSpk + 1
             ELSE /\ \E m \in Front(micQueue) : chunk' = [mic |-> m, speaker |-> speaker]
                  /\ micQueue' = PopFront(micQueue)
                  /\ frontOnEmpty' = (frontOnEmpty \/ micQueue = <<>>)
                  /\ nPairs' = nPairs + 1
                  /\ lastPair' = chunk'
                  /\ prevPair' = lastPair
                  /\ UNCHANGED nDropSpk
        /\ last' = [op |-> "addSpeaker", pre |-> state, arg |-> speaker, q |-> micQueue,
                    freed |-> {}]
        /\ spkPc' = IF drop THEN "drop" ELSE "return"

\* AudioInput::addEcho, a complete echo frame: outbuff = new short[], then
\* resync.addSpeaker(outbuff) up to the release of the mutex
AddSpeaker ==
    /\ ~destroyed
    /\ spkPc = "idle"
    /\ spkCount < MaxSpk
    /\ spkCount' = spkCount + 1
    /\ outbuff' = spkCount + 1
    /\ ResyncAddSpeaker(spkCount + 1)
    /\ UNCHANGED <<bResetProcessor, micCount, micFreed, spkFreed, destroyed, nDropMic,
                   nResetFreed>>
    /\ UNCHANGED <<bwVars, encVars, regVars>>

\* addSpeaker after the mutex: if (drop) delete[] speaker; return result;
\* then addEcho's test of chunk.empty()
AddSpeakerReturn ==
    /\ spkPc \in {"drop", "return"}
    /\ spkFreed' = IF spkPc = "drop" THEN Free(spkFreed, outbuff) ELSE spkFreed
    /\ spkPc' = IF ChunkEmpty(chunk) THEN "idle" ELSE "encode"
    /\ UNCHANGED <<state, micQueue, bResetProcessor, outbuff, chunk, micCount, spkCount,
                   micFreed, destroyed, last, lastPair, prevPair, frontOnEmpty, nPairs,
                   nDropMic, nDropSpk, nResetFreed>>
    /\ UNCHANGED <<bwVars, encVars, regVars>>

\* faulty variant of ResetState: the state is left as it is
ResetKeepState(s) == s

\* reset(): state = S0
ResetState(s) == "S0"

\* Resynchronizer::reset(), the whole body (it runs under the mutex)
ResyncReset(who) ==
    /\ state' = ResetState(state)
    /\ micQueue' = <<>>
    /\ micFreed' = FreeAll(micFreed, micQueue)
    /\ nResetFreed' = nResetFreed + Len(micQueue)
    /\ last' = [op |-> who, pre |-> state, arg |-> Null, q |-> micQueue,
                freed |-> {micQueue[i] : i \in 1..Len(micQueue)}]

(***************************************************************************)
(* Frame pipeline: AudioInput::encodeAudioFrame, selectCodec, flushCheck   *)
(***************************************************************************)
\* what one call of encodeAudioFrame reads from its frame and from the
\* globals: the level of the cleaned signal, Global::get().iPushToTalk > 0,
\* the double-push values, the API override, the mute sources,
\* Global::get().bOpus, s.lmLoopMode == Settings::Local, uiSession != 0,
\* iCodecAlpha, iCodecBeta, bPreferAlpha, and whether the encoder returns a
\* non-positive length, s.bDeaf, and the whole seconds that tIdle has
\* advanced since the frame before; and what the two later reads of
\* s.lmLoopMode, those of flushCheck, find: "asread" where the control thread
\* has not written the setting since the read of the mute check
FrameInputs ==
    [level : env.levels, key : env.keys, dbl : env.dbls, api : env.apis,
     mute : env.mutes, opus : env.opuses, local : env.locals,
     session : env.sessions, alpha : env.alphas, beta : env.betas,
     prefer : env.prefers, fail : env.fails, deaf : env.deafs, dt : env.dts,
     addr : env.addrs, sink : env.sinks]

\* Settings::LoopMode
LoopModes == {"None", "Local", "Server"}

\* a read of s.lmLoopMode made by flushCheck, later in the frame than the read
\* of the mute check
LoopModeRead(in, later) ==
    IF later = "asread" THEN (IF in.local THEN "Local" ELSE "None") ELSE later

\* flushCheck: the packet is addressed to the server loopback target where
\* s.lmLoopMode == Settings::Server, and goes to LoopUser::lpLoopy where
\* s.lmLoopMode == Settings::Local, to sendAudioFrame otherwise
Dispatch(in, packets) ==
    [loopback |-> packets # <<>> /\ LoopModeRead(in, in.addr) = "Server",
     sink |-> IF packets = <<>> THEN "none"
              ELSE IF LoopModeRead(in, in.sink) = "Local" THEN "loop"
              ELSE "transport"]

\* s.uiDoublePush, Global::get().uiDoublePush and tDoublePush.elapsed() with
\* double push switched off
NoDouble == [s |-> 0, g |-> 0, elapsed |-> 0]

\* the mute sources: s.bMute, the ClientUser p of the session ("none": null),
\* Global::get().bPushToMute and voiceTargetID; here nothing mutes
NoMute == [bMute |-> FALSE, user |-> "plain", bPushToMute |-> FALSE, target |-> 0]

\* the user has muted themselves
SelfMute == [NoMute EXCEPT !.bMute = TRUE]

\* faulty variant of DoublePush: the time since the last push is not read
DoublePushIntervalOnly(d) == d.s # 0 /\ d.g < d.s

\* encodeAudioFrame: the push-to-talk expression on the double-push values
DoublePush(d) == d.s # 0 /\ (d.g < d.s \/ d.elapsed < d.s)

\* faulty variant of Hysteresis: the lower threshold alone decides
HysteresisNoLatch(level, prev) == level > env.fVADmin

\* encodeAudioFrame: level against fVADmax and fVADmin
Hysteresis(level, prev) ==
    level > env.fVADmax \/ (level > env.fVADmin /\ prev)

\* encodeAudioFrame: iHoldFrames and the hold decision
VoiceHold(bIsSpeech, hold) ==
    IF ~bIsSpeech
      THEN [hold |-> hold + 1, speech |-> hold + 1 < env.iVoiceHold]
      ELSE [hold |-> 0, speech |-> TRUE]

\* faulty variant of TransmitMode: continuous transmission is left to the
\* voice activity decision
TransmitModeNoContinuous(in, bIsSpeech) ==
    \/ IF in.api
         THEN TRUE
         ELSE IF env.atTransmit = "PushToTalk" THEN DoublePush(in.dbl) ELSE bIsSpeech
    \/ in.key

\* encodeAudioFrame: transmit mode, push-to-talk and whisper keys
TransmitMode(in, bIsSpeech) ==
    \/ IF env.atTransmit = "Continuous" \/ in.api
         THEN TRUE
         ELSE IF env.atTransmit = "PushToTalk" THEN DoublePush(in.dbl) ELSE bIsSpeech
    \/ in.key

\* encodeAudioFrame: the condition under which bIsSpeech is cleared
MuteCondition(in) ==
    \/ in.mute.bMute
    \/ ~in.local /\ in.mute.user \in {"muted", "suppressed"}
    \/ in.mute.bPushToMute
    \/ in.mute.target < 0

\* faulty variant of Muted: push-to-mute is not looked at
MutedNoPushToMute(in, bIsSpeech) ==
    bIsSpeech /\ ~(MuteCondition(in) /\ ~in.mute.bPushToMute)

\* encodeAudioFrame: a mute condition clears bIsSpeech
Muted(in, bIsSpeech) == bIsSpeech /\ ~MuteCondition(in)

\* encodeAudioFrame: p->setTalking(...), "unset" where p is null
Talking(in, bIsSpeech) ==
    IF in.mute.user = "none" THEN "unset"
    ELSE IF ~bIsSpeech THEN "Passive"
    ELSE IF in.mute.target = 0 THEN "Talking" ELSE "Shouting"

\* faulty variant of SilentFrames: the frame counter restarts on every
\* silent frame
SilentFramesRestart(bIsSpeech, counter, silent) ==
    IF bIsSpeech
      THEN [silent |-> 0, counter |-> counter]
      ELSE [silent |-> silent + 1, counter |-> 0]

\* encodeAudioFrame: iSilentFrames, and iFrameCounter = 0 after more than
\* 500 silent frames
SilentFrames(bIsSpeech, counter, silent) ==
    IF bIsSpeech
      THEN [silent |-> 0, counter |-> counter]
      ELSE [silent |-> silent + 1,
            counter |-> IF silent + 1 > SilentLimit THEN 0 ELSE counter]

\* Global::get().qmCodecs.value(v): the codec of version v, 0 for none
CodecOfVersion(v) == IF v \in env.qmCodecs THEN v ELSE 0

\* the last entry of Global::get().qmCodecs, a map ordered by version
LatestCodec == CHOOSE v \in env.qmCodecs : \A w \in env.qmCodecs : w <= v

\* selectCodec: the CELT codec to switch to, 0 for none
SwitchTo(in) ==
    LET first == IF (~in.session \/ in.local) /\ env.qmCodecs # {}
                   THEN LatestCodec
                   ELSE IF cCodec # 0 /\ bPreviousVoice /\ cCodec \in {in.alpha, in.beta}
                          THEN cCodec
                          ELSE 0
        preferred == CodecOfVersion(IF in.prefer THEN in.alpha ELSE in.beta)
        other == CodecOfVersion(IF in.prefer THEN in.beta ELSE in.alpha)
    IN  IF first # 0 THEN first ELSE IF preferred # 0 THEN preferred ELSE other

\* faulty variant of SelectCodec: the server's Opus flag is followed in the
\* middle of a burst too
SelectCodecAnyTime(in) ==
    LET useOpus == in.opus \/ in.local
        switchto == SwitchTo(in)
    IN  IF useOpus
          THEN [ok |-> TRUE, codec |-> "Opus", cCodec |-> cCodec]
          ELSE IF switchto = 0
                 THEN [ok |-> FALSE, codec |-> m_codec, cCodec |-> 0]
                 ELSE [ok |-> TRUE,
                       codec |-> IF ~in.session THEN "CELT_Alpha"
                                 ELSE IF switchto = in.alpha THEN "CELT_Alpha"
                                 ELSE IF switchto = in.beta THEN "CELT_Beta"
                                 ELSE m_codec,
                       cCodec |-> switchto]

\* AudioInput::selectCodec: whether a codec is selected, m_codec and cCodec
SelectCodec(in) ==
    LET useOpus == IF bPreviousVoice THEN m_codec = "Opus" ELSE in.opus \/ in.local
        switchto == SwitchTo(in)
    IN  IF useOpus
          THEN [ok |-> TRUE, codec |-> "Opus", cCodec |-> cCodec]
          ELSE IF switchto = 0
                 THEN [ok |-> FALSE, codec |-> m_codec, cCodec |-> 0]
                 ELSE [ok |-> TRUE,
                       codec |-> IF ~in.session THEN "CELT_Alpha"
                                 ELSE IF switchto = in.alpha THEN "CELT_Alpha"
                                 ELSE IF switchto = in.beta THEN "CELT_Beta"
                                 ELSE m_codec,
                       cCodec |-> switchto]

\* the bytes the CELT encoder returns for the frame fid: one or two bytes
CeltEncode(fid) == [j \in 1..(1 + (fid % 2)) |-> fid % 128]

\* the first n 10-ms frames of opusBuffer, as handed to the Opus encoder
OpusSource(buf, n) == [i \in 1..n |-> IF i <= Len(buf) THEN buf[i] ELSE Wild]

\* unsigned char head = size; head |= 0x80 when another sub-frame follows
LegacyHead(size, more) ==
    LET head == size % 256
    IN  IF more /\ head < 128 THEN head + 128 ELSE head

RECURSIVE Concat(_)
Concat(ss) == IF ss = <<>> THEN <<>> ELSE Head(ss) \o Concat(Tail(ss))

\* flushCheck: the legacy payload, entry i built from qlFrames[0]
LegacyPayload(ql, frames) ==
    Concat([i \in 1..frames |-> <<LegacyHead(Len(ql[1]), i < frames)>> \o ql[1]])

\* faulty variant of FlushNow: a terminator alone does not flush
FlushNowFullOnly(terminator, buffered) == buffered >= iAudioFrames

\* flushCheck: if (!terminator && iBufferedFrames < iAudioFrames) return;
FlushNow(terminator, buffered) == terminator \/ buffered >= iAudioFrames

\* AudioInput::flushCheck(frame, terminator, voiceTargetID) on the values
\* r of the fields: the fields afterwards and the packet handed on
FlushCheck(r, frame, terminator) ==
    LET ql == Append(r.qlFrames, frame)
        frames == r.iBufferedFrames
        legacy == IF terminator THEN Append(ql, <<>>) ELSE ql
        packet ==
            [usedCodec |-> r.m_codec,
             isLastFrame |-> terminator,
             frameNumber |-> r.iFrameCounter - frames,
             frames |-> frames,
             audioFrames |-> iAudioFrames,
             queued |-> IF r.m_codec = "Opus" THEN ql ELSE legacy,
             payload |-> IF r.m_codec = "Opus"
                           THEN ql[1]
                           ELSE LegacyPayload(legacy, IF terminator THEN frames + 1
                                                                    ELSE frames)]
    IN  IF ~FlushNow(terminator, r.iBufferedFrames)
          THEN [r EXCEPT !.qlFrames = ql]
          ELSE [r EXCEPT !.qlFrames = <<>>, !.iBufferedFrames = 0,
                         !.packets = <<packet>>]

\* faulty variant of OpusPad: the tail is not filled
OpusPadNone(buffered) == 0

\* encodeAudioFrame, Opus: missingFrames
OpusPad(buffered) == IF buffered < iAudioFrames THEN iAudioFrames - buffered ELSE 0

\* faulty variant of EncodeCelt: a failed frame ends the burst
EncodeCeltGiveUp(r, in, fid, bIsSpeech) ==
    IF in.fail
      THEN [r EXCEPT !.iBitrate = 0, !.bResetEncoder = FALSE,
                     !.encReset = r.bResetEncoder, !.bPreviousVoice = FALSE,
                     !.exit = "encoder"]
      ELSE LET bytes == CeltEncode(fid)
               b == [r EXCEPT !.iBitrate = Len(bytes) * 100 * 8,
                              !.bResetEncoder = FALSE,
                              !.encReset = r.bResetEncoder,
                              !.iBufferedFrames = @ + 1]
           IN  FlushCheck(b, bytes, ~bIsSpeech)

\* encodeAudioFrame, CELT branch, on the values r of the fields
EncodeCelt(r, in, fid, bIsSpeech) ==
    IF in.fail
      THEN [r EXCEPT !.iBitrate = 0, !.bResetEncoder = FALSE,
                     !.encReset = r.bResetEncoder, !.exit = "encoder"]
      ELSE LET bytes == CeltEncode(fid)
               b == [r EXCEPT !.iBitrate = Len(bytes) * 100 * 8,
                              !.bResetEncoder = FALSE,
                              !.encReset = r.bResetEncoder,
                              !.iBufferedFrames = @ + 1]
           IN  FlushCheck(b, bytes, ~bIsSpeech)

\* faulty variant of EncodeOpus: a failed packet leaves iBufferedFrames as it is
EncodeOpusKeepCount(r, in, fid, bIsSpeech) ==
    LET buffered == r.iBufferedFrames + 1
        buf == Append(r.opusBuffer, fid)
    IN  IF bIsSpeech /\ buffered < iAudioFrames
          THEN [r EXCEPT !.opusBuffer = buf, !.iBufferedFrames = buffered]
          ELSE LET missing == OpusPad(buffered)
                   padded == buf \o [i \in 1..missing |-> 0]
                   n == buffered + missing
                   source == OpusSource(padded, n)
                   b == [r EXCEPT !.opusBuffer = <<>>,
                                  !.iBufferedFrames = n,
                                  !.iFrameCounter = @ + missing,
                                  !.bResetEncoder = FALSE,
                                  !.encReset = r.bResetEncoder,
                                  !.opusFrames = n,
                                  !.padded = missing]
               IN  IF in.fail
                     THEN [b EXCEPT !.iBitrate = 0, !.exit = "encoder"]
                     ELSE FlushCheck([b EXCEPT !.iBitrate = (Len(source) * 100 * 8) \div n],
                                     source, ~bIsSpeech)

\* encodeAudioFrame, Opus branch, on the values r of the fields
EncodeOpus(r, in, fid, bIsSpeech) ==
    LET buffered == r.iBufferedFrames + 1
        buf == Append(r.opusBuffer, fid)
    IN  IF bIsSpeech /\ buffered < iAudioFrames
          THEN [r EXCEPT !.opusBuffer = buf, !.iBufferedFrames = buffered]
          ELSE LET missing == OpusPad(buffered)
                   padded == buf \o [i \in 1..missing |-> 0]
                   n == buffered + missing
                   source == OpusSource(padded, n)
                   b == [r EXCEPT !.opusBuffer = <<>>,
                                  !.iBufferedFrames = n,
                                  !.iFrameCounter = @ + missing,
                                  !.bResetEncoder = FALSE,
                                  !.encReset = r.bResetEncoder,
                                  !.opusFrames = n,
                                  !.padded = missing]
               IN  IF in.fail
                     THEN [b EXCEPT !.iBitrate = 0, !.iBufferedFrames = 0,
                                    !.exit = "encoder"]
                     ELSE FlushCheck([b EXCEPT !.iBitrate = (Len(source) * 100 * 8) \div n],
                                     source, ~bIsSpeech)

\* faulty variant of IdleIntent: the intent is emitted whatever the user's
\* state is
IdleIntentAlways(in) ==
    IF env.iaeIdleAction = "Deafen" THEN <<"doDeaf">>
    ELSE IF env.iaeIdleAction = "Mute" THEN <<"doMute">>
    ELSE <<>>

\* encodeAudioFrame: the intent emitted when the idle time has passed
IdleIntent(in) ==
    IF env.iaeIdleAction = "Deafen" /\ ~in.deaf THEN <<"doDeaf">>
    ELSE IF env.iaeIdleAction = "Mute" /\ ~in.mute.bMute THEN <<"doMute">>
    ELSE <<>>

\* faulty variant of UndoIntent: s.bUndoIdleActionUponActivity is not read
UndoIntentAlways(in) ==
    IF env.iaeIdleAction = "Deafen" /\ in.deaf THEN <<"doDeaf">>
    ELSE IF env.iaeIdleAction = "Mute" /\ in.mute.bMute THEN <<"doMute">>
    ELSE <<>>

\* encodeAudioFrame: the intent emitted on the return from idle
UndoIntent(in) ==
    IF env.iaeIdleAction # "Nothing" /\ env.bUndoIdleActionUponActivity
      THEN IF env.iaeIdleAction = "Deafen" /\ in.deaf THEN <<"doDeaf">>
           ELSE IF env.iaeIdleAction = "Mute" /\ in.mute.bMute THEN <<"doMute">>
           ELSE <<>>
      ELSE <<>>

\* (tIdle.elapsed() / 1000000ULL) > s.iIdleTime
IdleExpired(elapsed) == elapsed > env.iIdleTime

\* encodeAudioFrame: the idle timer and the activity state; tIdle.restart()
\* on a frame that is speech or ends a burst
IdleStep(in, bIsSpeech) ==
    LET elapsed == tIdle + in.dt
        expired == IdleExpired(elapsed)
        st == IF expired THEN "Idle" ELSE activityState
        returned == st = "ReturnedFromIdle"
    IN  IF ~bIsSpeech /\ ~bPreviousVoice
          THEN [activityState |-> IF returned THEN "Active" ELSE st,
                tIdle |-> IF expired THEN 0 ELSE elapsed,
                expired |-> expired,
                intents |-> (IF expired THEN IdleIntent(in) ELSE <<>>)
                            \o (IF returned THEN UndoIntent(in) ELSE <<>>)]
          ELSE [activityState |-> activityState, tIdle |-> 0, expired |-> FALSE,
                intents |-> <<>>]

\* faulty variant of RaiseReset: the start of a burst does not raise the flag
RaiseResetNever(flag, bIsSpeech, prev) == flag

\* encodeAudioFrame: if (bIsSpeech && !bPreviousVoice) bResetEncoder = true
RaiseReset(flag, bIsSpeech, prev) == flag \/ (bIsSpeech /\ ~prev)

\* faulty variant of Quiet: no frame returns early
QuietNever(bIsSpeech, prev) == FALSE

\* encodeAudioFrame: if (!bIsSpeech && !bPreviousVoice) { ... return; }
Quiet(bIsSpeech, prev) == ~bIsSpeech /\ ~prev

\* encodeAudioFrame from the test of bIsSpeech and bPreviousVoice on: the
\* fields afterwards, the packet emitted and where the function returned
Framing(in, fid, bIsSpeech, counter) ==
    LET r0 == [iFrameCounter |-> counter,
               iBufferedFrames |-> iBufferedFrames,
               bPreviousVoice |-> bPreviousVoice,
               bResetEncoder |-> bResetEncoder \/ bResetProcessor,
               m_codec |-> m_codec,
               cCodec |-> cCodec,
               encReset |-> FALSE,
               qlFrames |-> qlFrames,
               opusBuffer |-> opusBuffer,
               iBitrate |-> iBitrate,
               packets |-> <<>>,
               opusFrames |-> 0,
               padded |-> 0,
               exit |-> "end"]
    IN  IF Quiet(bIsSpeech, bPreviousVoice)
          THEN [r0 EXCEPT !.iBitrate = 0, !.exit = "quiet"]
          ELSE
            LET r1 == [r0 EXCEPT !.bResetEncoder =
                                     RaiseReset(@, bIsSpeech, bPreviousVoice)]
                sel == SelectCodec(in)
                r2 == IF sel.codec # m_codec
                        THEN [r1 EXCEPT !.m_codec = sel.codec, !.cCodec = sel.cCodec,
                                        !.iBufferedFrames = 0,
                                        !.qlFrames = <<>>, !.opusBuffer = <<>>]
                        ELSE [r1 EXCEPT !.cCodec = sel.cCodec]
                r3 == IF sel.codec = "Opus"
                        THEN EncodeOpus(r2, in, fid, bIsSpeech)
                        ELSE EncodeCelt(r2, in, fid, bIsSpeech)
            IN  IF ~sel.ok
                  THEN [r1 EXCEPT !.cCodec = sel.cCodec, !.exit = "codec"]
                  ELSE IF r3.exit = "encoder"
                         THEN r3
                         ELSE [r3 EXCEPT !.bPreviousVoice = bIsSpeech,
                                         !.iBitrate = IF bIsSpeech THEN @ ELSE 0]

\* encodeAudioFrame from resetAudioProcessor() to speex_preprocess_run: the
\* calls made on the preprocessor, the echo state and the resynchronizer, in
\* their order, where reset is bResetProcessor and echo is iEchoChannels > 0
ProcessorSteps(reset, echo) ==
    (IF reset
       THEN <<"speex_preprocess_state_init", "resync.reset">>
            \o (IF echo THEN <<"speex_echo_state_init_mc">> ELSE <<>>)
       ELSE <<>>)
    \o (IF echo THEN <<"speex_echo_cancellation">> ELSE <<>>)
    \o <<"speex_preprocess_run">>

\* AudioInput::encodeAudioFrame(chunk) for the inputs in, but for its call of
\* resetAudioProcessor
EncodeFrame(in) ==
    \E fid \in {nFrames + 1} :
    \E vad \in {Hysteresis(in.level, bPreviousVoice)} :
    \E held \in {VoiceHold(vad, iHoldFrames)} :
    \E bIsSpeech \in {Muted(in, TransmitMode(in, held.speech))} :
    \E cnt \in {SilentFrames(bIsSpeech, iFrameCounter + 1, iSilentFrames)} :
    \E r \in {Framing(in, fid, bIsSpeech, cnt.counter)} :
    \E idle \in {IdleStep(in, bIsSpeech)} :
        /\ nFrames' = fid
        /\ iHoldFrames' = held.hold
        /\ iSilentFrames' = cnt.silent
        /\ iFrameCounter' = r.iFrameCounter
        /\ iBufferedFrames' = r.iBufferedFrames
        /\ bPreviousVoice' = r.bPreviousVoice
        /\ bResetEncoder' = r.bResetEncoder
        /\ m_codec' = r.m_codec
        /\ cCodec' = r.cCodec
        /\ qlFrames' = r.qlFrames
        /\ opusBuffer' = r.opusBuffer
        /\ iBitrate' = r.iBitrate
        /\ activityState' = idle.activityState
        /\ tIdle' = idle.tIdle
        /\ nPackets' = IF env.count THEN nPackets + Len(r.packets) ELSE nPackets
        /\ lastPacket' = IF r.packets # <<>> THEN r.packets[1] ELSE lastPacket
        /\ lastFrame' = [fid |-> fid, in |-> in, vad |-> vad, held |-> held.speech,
                         speech |-> bIsSpeech, prev |-> bPreviousVoice,
                         hold |-> iHoldFrames, counter |-> iFrameCounter,
                         buffered |-> iBufferedFrames, audioFrames |-> iAudioFrames,
                         codec |-> r.m_codec, codecBefore |-> m_codec,
                         buffers |-> [buffered |-> iBufferedFrames, ql |-> qlFrames,
                                      opus |-> opusBuffer],
                         talking |-> Talking(in, bIsSpeech),
                         wanted |-> TransmitMode(in, held.speech),
                         talkingWhenMuted |->
                             MuteCondition(in) /\ TransmitMode(in, held.speech),
                         encReset |-> r.encReset,
                         resetEncoderBefore |-> bResetEncoder,
                         expired |-> idle.expired, intents |-> idle.intents,
                         activityBefore |-> activityState,
                         steps |-> ProcessorSteps(bResetProcessor, env.echo),
                         dispatch |-> Dispatch(in, r.packets),
                         opusFrames |-> r.opusFrames,
                         padded |-> r.padded, reset |-> cnt.silent > SilentLimit,
                         exit |-> r.exit, packets |-> r.packets]
        /\ hist' = [failed |-> hist.failed \/ r.exit \in {"codec", "encoder"},
                    loud |-> hist.loud \/ in.level > env.fVADmax,
                    firstLoud |-> IF hist.firstLoud = 0 /\ in.level > env.fVADmax
                                    THEN fid ELSE hist.firstLoud,
                    speechSincePacket |->
                        IF r.packets # <<>> THEN FALSE
                        ELSE hist.speechSincePacket \/ bIsSpeech,
                    resets |-> hist.resets \/ cnt.silent > SilentLimit,
                    resetSincePacket |->
                        IF r.packets # <<>> THEN FALSE
                        ELSE hist.resetSincePacket \/ cnt.silent > SilentLimit,
                    nDeaf |-> hist.nDeaf
                              + Cardinality({i \in 1..Len(idle.intents) :
                                                idle.intents[i] = "doDeaf"}),
                    switchFid |-> IF env.count /\ r.m_codec # m_codec
                                    THEN fid ELSE hist.switchFid,
                    mutePackets |-> IF MuteCondition(in)
                                      THEN hist.mutePackets + Len(r.packets)
                                      ELSE 0,
                    termFails |->
                        IF ~bIsSpeech /\ bPreviousVoice
                          THEN IF r.exit \in {"codec", "encoder"}
                                 THEN hist.termFails + 1 ELSE hist.termFails
                          ELSE 0,
                    burst |-> IF bIsSpeech THEN hist.burst + 1 ELSE 0,
                    burstPackets |-> IF bIsSpeech
                                       THEN hist.burstPackets + Len(r.packets)
                                       ELSE 0]
        /\ UNCHANGED env

\* faulty variant of ResetAudioProcessor: bResetProcessor is not tested
ResetAudioProcessorAlways ==
    /\ ResyncReset("reset")
    /\ bResetProcessor' = FALSE

\* AudioInput::resetAudioProcessor() as far as it touches the resynchronizer
ResetAudioProcessor ==
    IF bResetProcessor
      THEN /\ ResyncReset("reset")
           /\ bResetProcessor' = FALSE
      ELSE UNCHANGED <<state, micQueue, micFreed, nResetFreed, last, bResetProcessor>>

\* AudioInput::addEcho: encodeAudioFrame(chunk) for the pair the resynchronizer
\* returned
EncodeAudioFrame ==
    /\ spkPc = "encode"
    /\ \E in \in FrameInputs : EncodeFrame(in)
    /\ ResetAudioProcessor
    /\ spkPc' = "free"
    /\ UNCHANGED <<outbuff, chunk, micCount, spkCount, spkFreed, destroyed, lastPair,
                   prevPair, frontOnEmpty, nPairs, nDropMic, nDropSpk>>
    /\ UNCHANGED <<bwVars, regVars>>

\* AudioInput::addMic without echo cancellation (iEchoChannels = 0): a complete
\* frame goes straight to encodeAudioFrame(AudioChunk(psMic))
EncodeMicFrame ==
    /\ ~env.echo
    /\ nFrames < env.budget
    /\ \E in \in FrameInputs : EncodeFrame(in)
    /\ ResetAudioProcessor
    /\ UNCHANGED <<spkPc, outbuff, chunk, micCount, spkCount, spkFreed, destroyed,
                   lastPair, prevPair, frontOnEmpty, nPairs, nDropMic, nDropSpk>>
    /\ UNCHANGED <<bwVars, regVars>>

\* user activity seen by the input handling while the capture is idle: the
\* field activityState is set to ActivityStateReturnedFromIdle from outside
ReturnFromIdle ==
    /\ env.activity
    /\ activityState = "Idle"
    /\ activityState' = "ReturnedFromIdle"
    /\ UNCHANGED <<env, iFrameCounter, iSilentFrames, iHoldFrames, iBufferedFrames,
                   bPreviousVoice, bResetEncoder, m_codec, cCodec, qlFrames,
                   opusBuffer, iBitrate, tIdle, nFrames, nPackets, lastPacket,
                   lastFrame, hist>>
    /\ UNCHANGED <<resyncVars, bwVars, regVars>>

\* addEcho after encodeAudioFrame: delete[] chunk.mic; delete[] chunk.speaker;
FreeChunk ==
    /\ spkPc = "free"
    /\ micFreed' = Free(micFreed, chunk.mic)
    /\ spkFreed' = Free(spkFreed, chunk.speaker)
    /\ chunk' = EmptyChunk
    /\ outbuff' = Null
    /\ spkPc' = "idle"
    /\ UNCHANGED <<state, micQueue, bResetProcessor, micCount, spkCount, destroyed, last,
                   lastPair, prevPair, frontOnEmpty, nPairs, nDropMic, nDropSpk,
                   nResetFreed>>
    /\ UNCHANGED <<bwVars, encVars, regVars>>

\* AudioInput::initializeMixer: bResetProcessor = true
InitializeMixer ==
    /\ ~destroyed
    /\ ~bResetProcessor
    /\ bResetProcessor' = TRUE
    /\ UNCHANGED <<state, micQueue, spkPc, outbuff, chunk, micCount, spkCount, micFreed,
                   spkFreed, destroyed, last, lastPair, prevPair, frontOnEmpty, nPairs,
                   nDropMic, nDropSpk, nResetFreed>>
    /\ UNCHANGED <<bwVars, encVars, regVars>>

\* Resynchronizer::~Resynchronizer(): reset(); it runs when the device threads
\* have stopped
Destroy ==
    /\ ~destroyed
    /\ spkPc = "idle"
    /\ ResyncReset("destroy")
    /\ destroyed' = TRUE
    /\ UNCHANGED <<bResetProcessor, spkPc, outbuff, chunk, micCount, spkCount, spkFreed,
                   lastPair, prevPair, frontOnEmpty, nPairs, nDropMic, nDropSpk>>
    /\ UNCHANGED <<bwVars, encVars, regVars>>

(***************************************************************************)
(* AudioInputRegistrar: the backends register themselves by name           *)
(***************************************************************************)
\* the keys of qmNew
Registered == IF qmNew.null THEN {} ELSE DOMAIN qmNew.map

\* faulty variant of Highest: the first entry of the map is taken
HighestFirstEntry(map) ==
    CHOOSE n \in DOMAIN map : \A k \in DOMAIN map : n <= k

\* newFromChoice: foreach (air, *qmNew) if (!r || air->priority > r->priority)
\* r = air; the name of r, the map being walked in key order
Highest(map) ==
    CHOOSE n \in DOMAIN map :
        \A k \in DOMAIN map :
            \/ regs[map[k]].priority < regs[map[n]].priority
            \/ regs[map[k]].priority = regs[map[n]].priority /\ n <= k

\* qmNew before the first registrar is constructed
NoMap == [null |-> TRUE, map |-> <<>>]

\* no call of newFromChoice since the map changed
NoNew == [choice |-> 0, created |-> 0, setting |-> 0]

\* AudioInputRegistrar::AudioInputRegistrar(n, p)
Register(n, p) ==
    /\ Len(regs) < MaxReg
    /\ regs' = Append(regs, [name |-> n, priority |-> p, alive |-> TRUE])
    /\ qmNew' = [null |-> FALSE,
                 map |-> [k \in Registered \cup {n} |->
                            IF k = n THEN Len(regs) + 1 ELSE qmNew.map[k]]]
    /\ lastNew' = NoNew
    /\ UNCHANGED <<qsAudioInput, current>>
    /\ UNCHANGED <<resyncVars, bwVars, encVars>>

\* AudioInputRegistrar::~AudioInputRegistrar(): qmNew->remove(name)
Unregister(id) ==
    /\ regs[id].alive
    /\ regs' = [regs EXCEPT ![id].alive = FALSE]
    /\ qmNew' = [qmNew EXCEPT !.map = [k \in Registered \ {regs[id].name} |-> @[k]]]
    /\ lastNew' = NoNew
    /\ UNCHANGED <<qsAudioInput, current>>
    /\ UNCHANGED <<resyncVars, bwVars, encVars>>

\* AudioInputRegistrar::newFromChoice(choice); created is the registrar whose
\* create() was called, 0 for an absent capture object
NewFromChoice(choice) ==
    /\ \E res \in {IF qmNew.null
                     THEN [created |-> 0, name |-> current, saved |-> qsAudioInput]
                   ELSE IF choice # 0 /\ choice \in Registered
                     THEN [created |-> qmNew.map[choice], name |-> choice,
                           saved |-> choice]
                   ELSE IF qsAudioInput \in Registered
                     THEN [created |-> qmNew.map[qsAudioInput], name |-> qsAudioInput,
                           saved |-> qsAudioInput]
                   ELSE IF Registered # {}
                     THEN [created |-> qmNew.map[Highest(qmNew.map)],
                           name |-> Highest(qmNew.map), saved |-> qsAudioInput]
                   ELSE [created |-> 0, name |-> current, saved |-> qsAudioInput]} :
          /\ current' = res.name
          /\ qsAudioInput' = res.saved
          /\ lastNew' = [choice |-> choice, created |-> res.created,
                         setting |-> qsAudioInput]
    /\ UNCHANGED <<qmNew, regs>>
    /\ UNCHANGED <<resyncVars, bwVars, encVars>>

\* the statics before any backend is constructed
InitReg ==
    /\ qmNew = NoMap
    /\ regs = <<>>
    /\ qsAudioInput = 0
    /\ current = 0
    /\ lastNew = NoNew

\* the settings and globals of a pipeline in voice-activity mode with a silent
\* microphone, Opus advertised, nothing muted, no key held, no failing encoder
BaseEnv ==
    [echo |-> FALSE, atTransmit |-> "VAD", iVoiceHold |-> 0, fVADmin |-> 1,
     fVADmax |-> 2, levels |-> {0}, keys |-> {FALSE}, dbls |-> {NoDouble},
     apis |-> {FALSE}, mutes |-> {NoMute}, opuses |-> {TRUE}, locals |-> {FALSE},
     sessions |-> {TRUE}, alphas |-> {1}, betas |-> {2}, prefers |-> {TRUE},
     qmCodecs |-> {1, 2}, fails |-> {FALSE}, deafs |-> {FALSE}, dts |-> {0},
     addrs |-> {"asread"}, sinks |-> {"asread"},
     iIdleTime |-> 0, iaeIdleAction |-> "Nothing",
     bUndoIdleActionUponActivity |-> FALSE, activity |-> FALSE, caps |-> {}, budget |-> MaxFrames, count |-> TRUE]

\* echo cancellation in use, the user muted
EchoEnv == [BaseEnv EXCEPT !.echo = TRUE, !.mutes = {SelfMute}]

NoPacket ==
    [usedCodec |-> "none", isLastFrame |-> FALSE, frameNumber |-> -1, frames |-> 0,
     audioFrames |-> 0, queued |-> <<>>, payload |-> <<>>]

NoFrame ==
    [fid |-> 0,
     in |-> [level |-> 0, key |-> FALSE, dbl |-> NoDouble, api |-> FALSE,
             mute |-> NoMute, opus |-> FALSE, local |-> FALSE, session |-> FALSE,
             alpha |-> 0, beta |-> 0, prefer |-> FALSE, fail |-> FALSE,
             deaf |-> FALSE, dt |-> 0, addr |-> "asread", sink |-> "asread"],
     vad |-> FALSE, held |-> FALSE, speech |-> FALSE, prev |-> FALSE, hold |-> 0,
     counter |-> 0, buffered |-> 0, audioFrames |-> 0, codec |-> "none",
     codecBefore |-> "none", buffers |-> [buffered |-> 0, ql |-> <<>>, opus |-> <<>>],
     talking |-> "unset", wanted |-> FALSE, talkingWhenMuted |-> FALSE, encReset |-> FALSE,
     resetEncoderBefore |-> FALSE,
     expired |-> FALSE, intents |-> <<>>, activityBefore |-> "Active",
     steps |-> <<>>, dispatch |-> [loopback |-> FALSE, sink |-> "none"],
     opusFrames |-> 0, padded |-> 0, reset |-> FALSE, exit |-> "none",
     packets |-> <<>>]

\* AudioInput::AudioInput(): the fields of the frame pipeline
InitEncFields ==
    /\ iFrameCounter = 0
    /\ iSilentFrames = 0
    /\ iHoldFrames = 0
    /\ iBufferedFrames = 0
    /\ bPreviousVoice = FALSE
    /\ bResetEncoder = TRUE
    /\ m_codec = "CELT_Alpha"
    /\ cCodec = 0
    /\ qlFrames = <<>>
    /\ opusBuffer = [i \in 1..sFrames |-> 0]
    /\ iBitrate = 0
    /\ activityState = "Active"
    /\ tIdle = 0
    /\ nFrames = 0
    /\ nPackets = 0
    /\ lastPacket = NoPacket
    /\ lastFrame = NoFrame
    /\ hist = [failed |-> FALSE, loud |-> FALSE, firstLoud |-> 0, speechSincePacket |-> FALSE,
               resets |-> FALSE, resetSincePacket |-> FALSE, mutePackets |-> 0,
               switchFid |-> 0, nDeaf |-> 0, termFails |-> 0, burst |-> 0,
               burstPackets |-> 0]

InitResyncVars ==
    /\ state = "S0"
    /\ micQueue = <<>>
    /\ bResetProcessor = TRUE
    /\ spkPc = "idle"
    /\ outbuff = Null
    /\ chunk = EmptyChunk
    /\ micCount = 0
    /\ spkCount = 0
    /\ micFreed = [b \in 1..MaxMic |-> 0]
    /\ spkFreed = [b \in 1..MaxSpk |-> 0]
    /\ destroyed = FALSE
    /\ last = [op |-> "init", pre |-> "S0", arg |-> Null, q |-> <<>>, freed |-> {}]
    /\ lastPair = EmptyChunk
    /\ prevPair = EmptyChunk
    /\ frontOnEmpty = FALSE
    /\ nPairs = 0
    /\ nDropMic = 0
    /\ nDropSpk = 0
    /\ nResetFreed = 0

InitBwFixed ==
    /\ sQuality = 40000
    /\ sFrames = 2
    /\ sAllowLowDelay = TRUE
    /\ sPosition = FALSE
    /\ tcpMode = FALSE
    /\ iMaxBandwidth = -1
    /\ aiExists = FALSE
    /\ iAudioQuality = 0
    /\ iAudioFrames = 0
    /\ bAllowLowDelay = FALSE
    /\ iAudioBandwidth = 0
    /\ lastBw = [op |-> "init", cap |-> -1, msg |-> FALSE, stopped |-> FALSE,
                 started |-> FALSE]

InitResync == InitResyncVars /\ InitBwFixed /\ env = EchoEnv /\ InitEncFields /\ InitReg

NextResync ==
    \/ AddMic
    \/ AddSpeaker
    \/ AddSpeakerReturn
    \/ EncodeAudioFrame
    \/ FreeChunk
    \/ InitializeMixer
    \/ Destroy

SpecResync == InitResync /\ [][NextResync]_vars

(***************************************************************************)
(* Claims about the resynchronizer, checked under SpecResync.              *)
(***************************************************************************)
Min(a, b) == IF a < b THEN a ELSE b

QueueSet(q) == {q[i] : i \in 1..Len(q)}

\* C1 as stated: once a call has returned, the mic FIFO never holds more than
\* 2 frames.
C1_QueueAtMostTwo == Len(micQueue) <= 2

\* C1 amended: after any interleaving of addMic, addSpeaker and reset the mic
\* FIFO never holds more than 5 frames (the depth of state S5).
C1_QueueAtMostFive == Len(micQueue) <= 5

\* an overflowing addMic has run with the queue at its cap
C1_Witness ==
    /\ last.op = "addMic"
    /\ last.pre = "S5"
    /\ Len(micQueue) = 5

\* C2: every non-empty chunk returned by addSpeaker carries a mic frame that
\* addMic enqueued before (the head of the queue at the call) and the speaker
\* frame just passed in; front() is never taken of an empty queue and no pair
\* has a null mic or a null speaker.
C2_PairCarriesBoth ==
    /\ ~frontOnEmpty
    /\ ~ChunkEmpty(chunk) =>
          /\ chunk.mic \in 1..micCount
          /\ chunk.speaker # Null
          /\ chunk.speaker = outbuff
          /\ chunk = lastPair
    /\ (last.op = "addSpeaker" /\ lastPair.speaker = last.arg) =>
          /\ last.q # <<>>
          /\ lastPair.mic = Head(last.q)
    /\ (lastPair.mic = Null) = (lastPair.speaker = Null)

\* the speaker thread holds a pair it is about to process
C2_Witness ==
    /\ spkPc = "encode"
    /\ ~ChunkEmpty(chunk)
    /\ chunk.mic > 1

\* the transition table of the specification: <<next state, action>>
TableMic(s) ==
    CASE s = "S0"  -> <<"S1a", "enqueue">>
      [] s = "S1a" -> <<"S2", "enqueue">>
      [] s = "S1b" -> <<"S2", "enqueue">>
      [] s = "S2"  -> <<"S3", "enqueue">>
      [] s = "S3"  -> <<"S4a", "enqueue">>
      [] s = "S4a" -> <<"S5", "enqueue">>
      [] s = "S4b" -> <<"S4b", "drop mic">>
      [] s = "S5"  -> <<"S5", "drop mic">>

TableSpk(s) ==
    CASE s = "S0"  -> <<"S0", "drop speaker">>
      [] s = "S1a" -> <<"S1a", "drop speaker">>
      [] s = "S1b" -> <<"S0", "emit pair">>
      [] s = "S2"  -> <<"S1b", "emit pair">>
      [] s = "S3"  -> <<"S2", "emit pair">>
      [] s = "S4a" -> <<"S3", "emit pair">>
      [] s = "S4b" -> <<"S3", "emit pair">>
      [] s = "S5"  -> <<"S4b", "emit pair">>

\* what the last call did, read off its effect on the queue and the buffers
ObservedAction ==
    CASE last.op = "addMic" /\ micQueue = Append(last.q, last.arg) /\ last.freed = {}
           -> "enqueue"
      [] last.op = "addMic" /\ Len(micQueue) = Len(last.q) /\ Cardinality(last.freed) = 1
           -> "drop mic"
      [] last.op = "addSpeaker" /\ micQueue = last.q /\ lastPair.speaker # last.arg
                                /\ (spkPc # "drop" => spkFreed[last.arg] = 1)
           -> "drop speaker"
      [] last.op = "addSpeaker" /\ last.q # <<>> /\ micQueue = Tail(last.q)
                                /\ lastPair = [mic |-> Head(last.q), speaker |-> last.arg]
           -> "emit pair"
      [] OTHER -> "none"

\* C3: in each of the 8 states addMic and addSpeaker produce the next state
\* and the action of the transition table; addSpeaker drops the speaker frame
\* in exactly S0 and S1a, addMic drops in exactly S4b and S5.
C3_TransitionTable ==
    /\ last.op = "addMic" =>
          /\ state = TableMic(last.pre)[1]
          /\ ObservedAction = TableMic(last.pre)[2]
          /\ (ObservedAction = "drop mic") = (last.pre \in {"S4b", "S5"})
    /\ last.op = "addSpeaker" =>
          /\ state = TableSpk(last.pre)[1]
          /\ ObservedAction = TableSpk(last.pre)[2]
          /\ (ObservedAction = "drop speaker") = (last.pre \in {"S0", "S1a"})

\* addMic has just run in S4b
C3_Witness ==
    /\ last.op = "addMic"
    /\ last.pre = "S4b"
    /\ state = "S4b"

\* C4 as stated: the number of pairs emitted equals min(M, S) minus the
\* number of frames dropped according to the state table.
C4_PairsMinMinusDrops == nPairs = Min(micCount, spkCount) - (nDropMic + nDropSpk)

\* C4 amended: the number of pairs emitted equals S minus the speaker frames
\* dropped, and equals M minus the mic frames dropped (by overflow or reset)
\* minus the mic frames still queued; hence it is at most min(M, S).
C4_PairsAccounting ==
    /\ nPairs = spkCount - nDropSpk
    /\ nPairs = micCount - nDropMic - nResetFreed - Len(micQueue)
    /\ nPairs <= Min(micCount, spkCount)

\* pairs were emitted and frames of both kinds were dropped
C4_Witness ==
    /\ nPairs >= 2
    /\ nDropMic >= 1
    /\ nDropSpk >= 1

\* C5: every mic and speaker buffer is released exactly once: at any time an
\* allocated buffer is either held by exactly one owner (queue, speaker thread)
\* or released once; it is never released twice, never in a pair after its
\* release, and after the destructor every allocated buffer is released.
C5_LinearOwnership ==
    /\ \A b \in DOMAIN micFreed :
          /\ micFreed[b] <= 1
          /\ b > micCount => micFreed[b] = 0 /\ Occurrences(micQueue, b) = 0
          /\ b <= micCount =>
                Occurrences(micQueue, b) + (IF chunk.mic = b THEN 1 ELSE 0) + micFreed[b] = 1
    /\ \A b \in DOMAIN spkFreed :
          /\ spkFreed[b] <= 1
          /\ b > spkCount => spkFreed[b] = 0
          /\ b <= spkCount =>
                (IF spkPc # "idle" /\ outbuff = b THEN 1 ELSE 0) + spkFreed[b] = 1
          /\ chunk.speaker = b => spkFreed[b] = 0
    /\ destroyed =>
          /\ \A b \in 1..micCount : micFreed[b] = 1
          /\ \A b \in 1..spkCount : spkFreed[b] = 1

\* the destructor has run after drops of both kinds, a pair and a reset
C5_Witness ==
    /\ destroyed
    /\ nDropMic >= 1
    /\ nDropSpk >= 1
    /\ nPairs >= 1
    /\ nResetFreed >= 1
    /\ Len(last.q) >= 1

\* C6: reset, in any state, leaves state S0 and an empty queue, having released
\* every queued frame; the resynchronizer is then in the state of a freshly
\* constructed one (its outputs depend on state and micQueue alone).
C6_ResetToS0 ==
    last.op \in {"reset", "destroy"} =>
        /\ state = "S0"
        /\ micQueue = <<>>
        /\ last.freed = QueueSet(last.q)
        /\ \A b \in last.freed : micFreed[b] = 1

\* reset has run in S3 with three frames queued
C6_Witness ==
    /\ last.op = "reset"
    /\ last.pre = "S3"
    /\ Len(last.q) = 3

\* C7: successive pairs carry mic frames in addMic arrival order and speaker
\* frames in addSpeaker arrival order (buffers are numbered in arrival order).
C7_StreamOrder ==
    (~ChunkEmpty(prevPair) /\ ~ChunkEmpty(lastPair)) =>
        /\ lastPair.mic > prevPair.mic
        /\ lastPair.speaker > prevPair.speaker

\* two successive pairs carry mic frames 3 and 5: frame 4 was dropped on
\* overflow between them (the one frame reset released was queued earlier)
C7_Witness ==
    /\ prevPair.mic = 3
    /\ lastPair.mic = 5
    /\ lastPair.speaker = prevPair.speaker + 1
    /\ nDropMic = 1
    /\ nResetFreed = 1
    /\ micFreed[2] = 1
    /\ micFreed[4] = 1

(***************************************************************************)
(* Bandwidth governor                                                      *)
(***************************************************************************)
\* the values of s.iQuality, s.iFramesPerPacket and of the server's cap
Qualities == {8000} \cup {64000 - 24000 * k : k \in 0..(MaxQualityK - 1)}

FramesChoices == {1, 2, 4, 6}

\* AudioInput::getNetworkBandwidth(bitrate, frames)
GetNetworkBandwidth(bitrate, frames) ==
    LET overhead == 20 + 8 + 4 + 1 + 2 + (IF sPosition THEN 12 ELSE 0)
                    + (IF tcpMode THEN 12 ELSE 0) + frames
    IN  overhead * (800 \div frames) + bitrate

\* the caps tried: no limit, a cap nothing fits, the least cap the floor
\* setting (8000, 4) fits, and the caps on either side of the table's bounds
Caps ==
    {-1, 8000} \cup {16000 * k + d : k \in 2..MaxCapK, d \in {0, 1}}
               \cup {GetNetworkBandwidth(8000, 4)}

\* faulty variant of CoarsenFrames: the first row applies to any frames
CoarsenFramesAny(frames, bitspersec) ==
    IF bitspersec <= 32000 THEN 4
    ELSE IF frames = 1 /\ bitspersec <= 64000 THEN 2
    ELSE IF frames = 2 /\ bitspersec <= 48000 THEN 4
    ELSE frames

\* faulty variant of CoarsenFrames: the first two rows are swapped
CoarsenFramesSwapped(frames, bitspersec) ==
    IF frames = 1 /\ bitspersec <= 64000 THEN 2
    ELSE IF frames <= 4 /\ bitspersec <= 32000 THEN 4
    ELSE IF frames = 2 /\ bitspersec <= 48000 THEN 4
    ELSE frames

\* adjustBandwidth: the if / else if chain that coarsens frames
CoarsenFrames(frames, bitspersec) ==
    IF frames <= 4 /\ bitspersec <= 32000 THEN 4
    ELSE IF frames = 1 /\ bitspersec <= 64000 THEN 2
    ELSE IF frames = 2 /\ bitspersec <= 48000 THEN 4
    ELSE frames

RECURSIVE LowerBitrate(_, _, _)
\* adjustBandwidth: do { bitrate -= 1000; } while (bitrate > 8000 && bandwidth > cap)
LowerBitrate(bitrate, frames, bitspersec) ==
    LET b == bitrate - 1000
    IN  IF b > 8000 /\ GetNetworkBandwidth(b, frames) > bitspersec
          THEN LowerBitrate(b, frames, bitspersec)
          ELSE b

\* AudioInput::adjustBandwidth(bitspersec, bitrate, frames, allowLowDelay):
\* the three values it returns through its reference parameters
AdjustBandwidth(bitspersec) ==
    LET exceeds == bitspersec # -1 /\ GetNetworkBandwidth(sQuality, sFrames) > bitspersec
        frames == IF exceeds THEN CoarsenFrames(sFrames, bitspersec) ELSE sFrames
        bitrate == IF exceeds /\ GetNetworkBandwidth(sQuality, frames) > bitspersec
                     THEN LowerBitrate(sQuality, frames, bitspersec)
                     ELSE sQuality
    IN  [bitrate |-> IF bitrate <= 8000 THEN 8000 ELSE bitrate,
         frames |-> frames,
         allowLowDelay |-> sAllowLowDelay]

\* AudioInput::AudioInput(): the fields the governor sets, for the cap stored
\* in Global::get().iMaxBandwidth (the constructor's own setMaxBandwidth call
\* passes the stored cap and returns at once)
NewAudioInput(maxBandwidth) ==
    \E adj \in {AdjustBandwidth(maxBandwidth)} :
        /\ iAudioQuality' = adj.bitrate
        /\ iAudioFrames' = adj.frames
        /\ bAllowLowDelay' = adj.allowLowDelay
        /\ iAudioBandwidth' = GetNetworkBandwidth(adj.bitrate, adj.frames)

\* Audio::startInput(): a capture object is created from the registered
\* backends and stored in Global::get().ai, or none is (no backend)
StartInputWith(maxBandwidth) ==
    \E created \in BOOLEAN :
        /\ aiExists' = created
        /\ IF created
             THEN NewAudioInput(maxBandwidth)
             ELSE UNCHANGED <<iAudioQuality, iAudioFrames, bAllowLowDelay, iAudioBandwidth>>

\* faulty variant of SameCap: no early return
SameCapNever(bitspersec) == FALSE

\* setMaxBandwidth: if (bitspersec == Global::get().iMaxBandwidth) return;
SameCap(bitspersec) == bitspersec = iMaxBandwidth

\* setMaxBandwidth: the msgBox is shown
Notifies(bitspersec, adj) ==
    bitspersec # -1 /\ (adj.bitrate # sQuality \/ adj.frames # sFrames)

\* AudioInput::setMaxBandwidth(bitspersec)
SetMaxBandwidth(bitspersec) ==
    /\ IF SameCap(bitspersec)
         THEN /\ UNCHANGED <<iMaxBandwidth, aiExists, iAudioQuality, iAudioFrames,
                             bAllowLowDelay, iAudioBandwidth>>
              /\ lastBw' = [op |-> "setMaxBandwidth", cap |-> bitspersec, msg |-> FALSE,
                            stopped |-> FALSE, started |-> FALSE]
         ELSE \E adj \in {AdjustBandwidth(bitspersec)} :
              /\ iMaxBandwidth' = bitspersec
              /\ IF aiExists
                   THEN /\ iAudioBandwidth' = GetNetworkBandwidth(adj.bitrate, adj.frames)
                        /\ iAudioQuality' = adj.bitrate
                        /\ iAudioFrames' = adj.frames
                        /\ bAllowLowDelay' = adj.allowLowDelay
                        /\ UNCHANGED aiExists
                        /\ lastBw' = [op |-> "setMaxBandwidth", cap |-> bitspersec,
                                      msg |-> Notifies(bitspersec, adj),
                                      stopped |-> FALSE, started |-> FALSE]
                   ELSE /\ StartInputWith(bitspersec)
                        /\ lastBw' = [op |-> "setMaxBandwidth", cap |-> bitspersec,
                                      msg |-> Notifies(bitspersec, adj),
                                      stopped |-> TRUE, started |-> TRUE]
    /\ UNCHANGED <<sQuality, sFrames, sAllowLowDelay, sPosition, tcpMode>>
    /\ UNCHANGED <<resyncVars, encVars, regVars>>

\* Audio::startInput() called by the application while no capture exists
StartInput ==
    /\ ~aiExists
    /\ StartInputWith(iMaxBandwidth)
    /\ lastBw' = [op |-> "startInput", cap |-> iMaxBandwidth, msg |-> FALSE,
                  stopped |-> FALSE, started |-> TRUE]
    /\ UNCHANGED <<sQuality, sFrames, sAllowLowDelay, sPosition, tcpMode, iMaxBandwidth>>
    /\ UNCHANGED <<resyncVars, encVars, regVars>>

\* Audio::stopInput() called by the application: the capture object is destroyed
StopInput ==
    /\ aiExists
    /\ aiExists' = FALSE
    /\ iAudioQuality' = 0
    /\ iAudioFrames' = 0
    /\ bAllowLowDelay' = FALSE
    /\ lastBw' = [op |-> "stopInput", cap |-> iMaxBandwidth, msg |-> FALSE,
                  stopped |-> TRUE, started |-> FALSE]
    /\ UNCHANGED <<sQuality, sFrames, sAllowLowDelay, sPosition, tcpMode, iMaxBandwidth,
                   iAudioBandwidth>>
    /\ UNCHANGED <<resyncVars, encVars, regVars>>

InitBw ==
    /\ sQuality \in Qualities
    /\ sFrames \in FramesChoices
    /\ sAllowLowDelay = TRUE
    /\ sPosition \in BOOLEAN
    /\ tcpMode \in BOOLEAN
    /\ iMaxBandwidth = -1
    /\ aiExists = FALSE
    /\ iAudioQuality = 0
    /\ iAudioFrames = 0
    /\ bAllowLowDelay = FALSE
    /\ iAudioBandwidth = 0
    /\ lastBw = [op |-> "init", cap |-> -1, msg |-> FALSE, stopped |-> FALSE,
                 started |-> FALSE]

InitBandwidth == InitResyncVars /\ InitBw /\ env = EchoEnv /\ InitEncFields /\ InitReg

NextBandwidth ==
    \/ \E bitspersec \in Caps : SetMaxBandwidth(bitspersec)
    \/ StartInput
    \/ StopInput

SpecBandwidth == InitBandwidth /\ [][NextBandwidth]_vars

\* the backends come and go, the saved setting is whatever the user stored
InitRegistrar ==
    /\ InitResyncVars /\ InitBwFixed /\ env = EchoEnv /\ InitEncFields
    /\ qmNew = NoMap
    /\ regs = <<>>
    /\ qsAudioInput \in 0..MaxName
    /\ current = 0
    /\ lastNew = NoNew

NextRegistrar ==
    \/ \E n \in 0..MaxName, p \in 0..MaxPriority : Register(n, p)
    \/ \E id \in 1..Len(regs) : Unregister(id)
    \/ \E choice \in 0..MaxName : NewFromChoice(choice)

SpecRegistrar == InitRegistrar /\ [][NextRegistrar]_vars

(***************************************************************************)
(* The frame pipeline without echo cancellation: the mic thread hands each *)
(* frame to encodeAudioFrame, the control thread may call setMaxBandwidth. *)
(***************************************************************************)
\* s.iVoiceHold
Holds == {0, 1, 2, 10}

\* every combination of the mute sources
MuteSources ==
    [bMute : BOOLEAN, user : {"none", "plain", "muted", "suppressed"},
     bPushToMute : BOOLEAN, target : {-1, 0, 1}]

\* nothing muted, or one mute source at a time
MuteChoices ==
    {NoMute, SelfMute, [NoMute EXCEPT !.user = "muted"],
     [NoMute EXCEPT !.user = "suppressed"], [NoMute EXCEPT !.bPushToMute = TRUE],
     [NoMute EXCEPT !.target = -1]}

\* the caps the server sends while frames are encoded
BurstCaps == {-1, 32000, 64000}

EncodeEnvs ==
    \* continuous transmission
    {[BaseEnv EXCEPT !.atTransmit = "Continuous", !.fails = f, !.mutes = m,
                     !.opuses = o] :
        f \in {{FALSE}, BOOLEAN}, m \in {{NoMute}, {NoMute, SelfMute}},
        o \in {{TRUE}, {FALSE}}}
    \cup
    \* continuous transmission while the server changes the cap
    {[BaseEnv EXCEPT !.atTransmit = "Continuous", !.caps = BurstCaps, !.opuses = o] :
        o \in {{TRUE}, {FALSE}}}
    \cup
    \* voice activity
    {[BaseEnv EXCEPT !.iVoiceHold = h, !.levels = 0..MaxLevel, !.opuses = o] :
        h \in Holds, o \in {{TRUE}, {FALSE}}}
    \cup
    \* voice activity with an encoder that may fail
    {[BaseEnv EXCEPT !.levels = 0..MaxLevel, !.fails = BOOLEAN]}
    \cup
    \* push-to-talk; the server may switch between Opus and CELT
    {[BaseEnv EXCEPT !.atTransmit = "PushToTalk", !.keys = BOOLEAN, !.opuses = o] :
        o \in {{TRUE}, {FALSE}, BOOLEAN}}
    \cup
    \* push-to-talk with an encoder that may fail, or no CELT codec to select
    {[BaseEnv EXCEPT !.atTransmit = "PushToTalk", !.keys = BOOLEAN, !.opuses = o,
                     !.alphas = a, !.betas = {3}, !.fails = f] :
        o \in {{TRUE}, {FALSE}}, a \in {{1}, {1, 3}}, f \in {{FALSE}, BOOLEAN}}

\* the capture object as its constructor leaves it, no server cap stored
InitCapture ==
    /\ sAllowLowDelay = TRUE
    /\ sPosition = FALSE
    /\ tcpMode = FALSE
    /\ iMaxBandwidth = -1
    /\ aiExists = TRUE
    /\ iAudioQuality = sQuality
    /\ iAudioFrames = sFrames
    /\ bAllowLowDelay = sAllowLowDelay
    /\ iAudioBandwidth = GetNetworkBandwidth(sQuality, sFrames)
    /\ lastBw = [op |-> "init", cap |-> -1, msg |-> FALSE, stopped |-> FALSE,
                 started |-> FALSE]

InitEncode ==
    /\ InitResyncVars
    /\ sQuality = 64000
    /\ sFrames \in {1, 2, 6}
    /\ env \in EncodeEnvs
    /\ env.caps # {} => sFrames = 1
    /\ InitCapture
    /\ InitEncFields
    /\ InitReg

NextEncode ==
    \/ EncodeMicFrame
    \/ \E bitspersec \in env.caps : SetMaxBandwidth(bitspersec)

SpecEncode == InitEncode /\ [][NextEncode]_vars

\* a long run: push-to-talk, Opus, one frame per packet
SilenceEnv ==
    [BaseEnv EXCEPT !.atTransmit = "PushToTalk", !.keys = BOOLEAN, !.budget = MaxSilence,
                    !.count = FALSE]

InitSilence ==
    /\ InitResyncVars
    /\ sQuality = 64000
    /\ sFrames = 1
    /\ env = SilenceEnv
    /\ InitCapture
    /\ InitEncFields
    /\ InitReg

\* no server message arrives in the long run
NextSilence == EncodeMicFrame

MuteEnvs ==
    \* continuous transmission under every combination of the mute sources
    {[BaseEnv EXCEPT !.atTransmit = "Continuous", !.mutes = MuteSources,
                     !.locals = BOOLEAN, !.opuses = o, !.budget = MaxMuteFrames] :
        o \in {{TRUE}, {FALSE}}}
    \cup
    \* keys, API override or a loud microphone while a mute source is on
    {[BaseEnv EXCEPT !.atTransmit = t, !.mutes = MuteChoices, !.keys = BOOLEAN,
                     !.apis = BOOLEAN, !.levels = {0, MaxLevel},
                     !.budget = MaxMuteFrames] :
        t \in {"VAD", "PushToTalk"}}

InitMute ==
    /\ InitResyncVars
    /\ sQuality = 64000
    /\ sFrames \in {1, 2}
    /\ env \in MuteEnvs
    /\ InitCapture
    /\ InitEncFields
    /\ InitReg

\* frames encoded while the mute sources come and go
SpecMute == InitMute /\ [][NextSilence]_vars

\* values of s.uiDoublePush, Global::get().uiDoublePush and
\* tDoublePush.elapsed(), all unsigned
DoublePushes == [s : {0, 2}, g : {1, 3}, elapsed : {1, 3}]

\* push-to-talk with keys, double pushes, a loud or silent microphone, a hold
\* time and the API override
PttEnvs ==
    {[BaseEnv EXCEPT !.atTransmit = "PushToTalk", !.keys = BOOLEAN,
                     !.dbls = DoublePushes, !.levels = {0, MaxLevel},
                     !.iVoiceHold = h, !.apis = a, !.budget = MaxPttFrames] :
        h \in {0, 2}, a \in {{FALSE}, BOOLEAN}}

InitPtt ==
    /\ InitResyncVars
    /\ sQuality = 64000
    /\ sFrames = 1
    /\ env \in PttEnvs
    /\ InitCapture
    /\ InitEncFields
    /\ InitReg

\* frames encoded in push-to-talk mode
SpecPtt == InitPtt /\ [][NextSilence]_vars

IdleEnvs ==
    {[BaseEnv EXCEPT !.atTransmit = "PushToTalk", !.keys = BOOLEAN,
                     !.mutes = {NoMute, SelfMute}, !.deafs = BOOLEAN, !.dts = {0, 1},
                     !.iIdleTime = t, !.iaeIdleAction = a,
                     !.bUndoIdleActionUponActivity = u, !.activity = TRUE,
                     !.budget = MaxIdleFrames] :
        t \in 0..MaxIdleTime, a \in {"Nothing", "Deafen", "Mute"}, u \in BOOLEAN}

InitIdle ==
    /\ InitResyncVars
    /\ sQuality = 64000
    /\ sFrames = 1
    /\ env \in IdleEnvs
    /\ InitCapture
    /\ InitEncFields
    /\ InitReg

NextIdle ==
    \/ EncodeMicFrame
    \/ ReturnFromIdle

\* frames encoded while the idle timer runs and the user comes and goes
SpecIdle == InitIdle /\ [][NextIdle]_vars

\* the CELT bitstream versions the server may name; qmCodecs holds 1 and 2
Versions == {1, 2, 3}

CodecEnvs ==
    \* the server changes bOpus, iCodecAlpha and iCodecBeta between frames
    {[BaseEnv EXCEPT !.atTransmit = "PushToTalk", !.keys = BOOLEAN,
                     !.opuses = BOOLEAN, !.alphas = Versions, !.betas = Versions,
                     !.prefers = {pr}, !.budget = MaxCodecFrames] :
        pr \in BOOLEAN}
    \cup
    \* loopback mode, session and preference change between frames
    {[BaseEnv EXCEPT !.atTransmit = "PushToTalk", !.keys = BOOLEAN,
                     !.opuses = BOOLEAN, !.locals = BOOLEAN, !.sessions = BOOLEAN,
                     !.prefers = BOOLEAN, !.qmCodecs = qm,
                     !.budget = MaxCodecFrames] :
        qm \in {{1, 2}, {2}, {}}}
    \cup
    \* continuous transmission while the server changes the codec and the cap
    {[BaseEnv EXCEPT !.atTransmit = "Continuous", !.opuses = BOOLEAN,
                     !.alphas = {1, 2}, !.betas = {1, 2}, !.fails = BOOLEAN,
                     !.caps = BurstCaps, !.budget = MaxCodecFrames]}

InitCodec ==
    /\ InitResyncVars
    /\ sQuality = 64000
    /\ sFrames \in {1, 2}
    /\ env \in CodecEnvs
    /\ InitCapture
    /\ InitEncFields
    /\ InitReg

\* frames encoded while the codec negotiation goes on
SpecCodec == InitCodec /\ [][NextEncode]_vars

SpecSilence == InitSilence /\ [][NextSilence]_vars

(***************************************************************************)
(* Claims about the bandwidth governor, checked under SpecBandwidth.  A    *)
(* capture object's iAudioQuality and iAudioFrames are what adjustBandwidth*)
(* returned for the stored cap (constructor and setMaxBandwidth).          *)
(***************************************************************************)
Max(a, b) == IF a > b THEN a ELSE b

\* C8: for every setting of quality, frames in {1,2,4,6}, positional and TCP
\* mode, and every cap >= bandwidth(8000, 4), adjustBandwidth(cap) returns
\* (bitrate, frames) with getNetworkBandwidth(bitrate, frames) <= cap.
C8_AdjustedFitsCap ==
    (aiExists /\ iMaxBandwidth >= GetNetworkBandwidth(8000, 4)) =>
        GetNetworkBandwidth(iAudioQuality, iAudioFrames) <= iMaxBandwidth

\* the rows of the specification's table, first match only
TableFrames(frames, cap) ==
    IF frames <= 4 /\ cap <= 32000 THEN 4
    ELSE IF frames = 1 /\ cap <= 64000 THEN 2
    ELSE IF frames = 2 /\ cap <= 48000 THEN 4
    ELSE frames

\* C9: when the bandwidth of the user's (quality, frames) exceeds the cap,
\* frames is coarsened by the first matching row only, and only afterwards
\* bitrate is lowered in steps of 1000 while the bandwidth still exceeds the
\* cap (floored at 8000); for cap 32000, quality 64000, frames 1 the result
\* has frames = 4 and bandwidth <= 32000.
C9_CoarsenThenLower ==
    (aiExists /\ iMaxBandwidth # -1
              /\ GetNetworkBandwidth(sQuality, sFrames) > iMaxBandwidth) =>
        LET f == TableFrames(sFrames, iMaxBandwidth)
            Fits(n) == \/ GetNetworkBandwidth(sQuality - 1000 * n, f) <= iMaxBandwidth
                       \/ sQuality - 1000 * n <= 8000
        IN  /\ iAudioFrames = f
            /\ \E n \in 0..(sQuality \div 1000) :
                  /\ Fits(n)
                  /\ \A m \in 0..(n - 1) : ~Fits(m)
                  /\ iAudioQuality = Max(8000, sQuality - 1000 * n)
            /\ (iMaxBandwidth = 32000 /\ sQuality = 64000 /\ sFrames = 1) =>
                  /\ iAudioFrames = 4
                  /\ GetNetworkBandwidth(iAudioQuality, iAudioFrames) <= 32000

\* setMaxBandwidth(32000) has adjusted quality 64000, 1 frame per packet
C9_Witness ==
    /\ aiExists
    /\ lastBw.op = "setMaxBandwidth"
    /\ iMaxBandwidth = 32000
    /\ sQuality = 64000
    /\ sFrames = 1
    /\ iAudioFrames = 4
    /\ iAudioQuality < 64000

FrameStep == nFrames' = nFrames + 1

\* the call of encodeAudioFrame of this step emitted a packet
Emits == lastFrame'.packets # <<>>

\* C11: a terminator packet is the last of its burst: after it no packet is
\* emitted until a frame has is_speech = true, two terminators never follow
\* each other without a speech frame between them, a terminator is emitted
\* only on a frame where is_speech is false while was_speech_previous is
\* true, and with the encoder succeeding the first frame that is not speech
\* after a speech frame emits exactly one packet, the terminator.
C11_TerminatorEndsBurst ==
    [][FrameStep =>
        /\ (Emits /\ lastPacket.isLastFrame) =>
                (hist.speechSincePacket \/ lastFrame'.speech)
        /\ (Emits /\ lastPacket.isLastFrame /\ lastPacket'.isLastFrame) =>
                hist.speechSincePacket
        /\ (Emits /\ lastPacket'.isLastFrame) =>
                (~lastFrame'.speech /\ lastFrame'.prev /\ hist.burstPackets' = 0)
        /\ (~hist'.failed /\ lastFrame.speech /\ ~lastFrame'.speech) =>
                /\ Len(lastFrame'.packets) = 1
                /\ lastPacket'.isLastFrame
                /\ lastFrame'.prev
        /\ (~hist'.failed /\ ~lastFrame.speech /\ ~lastFrame'.speech) => ~Emits
    ]_vars

\* a second burst has just been closed by its terminator, in CELT mode
C11_Witness ==
    /\ nPackets >= 3
    /\ lastPacket.isLastFrame
    /\ lastFrame.packets = <<lastPacket>>
    /\ lastPacket.usedCodec = "CELT_Alpha"
    /\ lastPacket.frames >= 2
    /\ ~hist.failed

\* C12: in Opus mode (iAudioFrames unchanged, the encoder succeeding), when a
\* burst of b < iAudioFrames speech frames is followed by the terminating
\* frame, exactly one packet is emitted for the burst, it is the terminator,
\* it encodes exactly iAudioFrames 10-ms frames, the frames of the burst and
\* the terminating frame followed by zero samples, and iFrameCounter is
\* advanced by the number of padded frames (beyond the frame itself).
C12_OpusShortBurstPadded ==
    [][(/\ FrameStep
        /\ lastFrame'.codec = "Opus"
        /\ env.caps = {}
        /\ ~hist'.failed
        /\ ~lastFrame'.speech
        /\ hist.burst >= 1
        /\ hist.burst < iAudioFrames) =>
            LET b == hist.burst
                N == iAudioFrames
                p == lastPacket'
            IN  /\ Len(lastFrame'.packets) = 1
                /\ hist.burstPackets = 0
                /\ p.isLastFrame
                /\ p.usedCodec = "Opus"
                /\ Len(p.payload) = N
                /\ \A i \in 1..N :
                      p.payload[i] = IF i <= b + 1 THEN nFrames' - (b + 1) + i ELSE 0
                /\ lastFrame'.padded = N - (b + 1)
                /\ iFrameCounter' = iFrameCounter + 1 + lastFrame'.padded
    ]_vars

\* a burst of two frames has ended with six frames per packet: three frames
\* of audio and three of zeros
C12_Witness ==
    /\ lastFrame.codec = "Opus"
    /\ env.caps = {}
    /\ ~hist.failed
    /\ lastFrame.prev /\ ~lastFrame.speech
    /\ lastFrame.packets = <<lastPacket>>
    /\ lastPacket.isLastFrame
    /\ lastFrame.audioFrames = 6
    /\ lastFrame.padded = 3
    /\ lastPacket.payload[4] = 0
    /\ lastPacket.payload[3] = nFrames

\* the receiver's reading of a legacy payload: a length byte whose bit 0x80
\* says that another sub-frame follows, then that many bytes
RECURSIVE ParseLegacy(_)
ParseLegacy(payload) ==
    IF payload = <<>>
      THEN [frames |-> <<>>, complete |-> FALSE]
      ELSE LET head == payload[1]
               size == head % 128
               body == SubSeq(payload, 2, 1 + size)
               rest == SubSeq(payload, 2 + size, Len(payload))
           IN  IF Len(payload) < 1 + size
                 THEN [frames |-> <<>>, complete |-> FALSE]
                 ELSE IF head >= 128
                        THEN LET more == ParseLegacy(rest)
                             IN  [frames |-> <<body>> \o more.frames,
                                  complete |-> more.complete]
                        ELSE [frames |-> <<body>>, complete |-> rest = <<>>]

\* C13: the payload of a legacy packet parses into exactly the sub-frames
\* accumulated for it (each shorter than 128 bytes), with their bytes and in
\* their order, followed on a terminator packet by an empty sub-frame, the
\* continuation bit set on every entry but the last.
C13_LegacyRoundTrip ==
    (lastPacket.usedCodec = "CELT_Alpha") =>
        LET parsed == ParseLegacy(lastPacket.payload)
        IN  /\ parsed.complete
            /\ parsed.frames = lastPacket.queued
            /\ Len(lastPacket.queued) = lastPacket.frames
                                          + (IF lastPacket.isLastFrame THEN 1 ELSE 0)
            /\ lastPacket.isLastFrame =>
                    lastPacket.queued[Len(lastPacket.queued)] = <<>>

\* C14: CELT, iAudioFrames = 6: when speech stops and three frames are
\* buffered, exactly one packet is emitted, the terminator, holding the
\* three encoded sub-frames followed by the empty end marker.
C14_CeltReleaseMidPacket ==
    (/\ lastFrame.packets = <<lastPacket>>
     /\ lastPacket.usedCodec = "CELT_Alpha"
     /\ lastPacket.isLastFrame
     /\ lastPacket.audioFrames = 6
     /\ lastPacket.frames = 3
     /\ ~hist.failed) =>
        ParseLegacy(lastPacket.payload) =
            [frames |-> <<CeltEncode(nFrames - 2), CeltEncode(nFrames - 1),
                          CeltEncode(nFrames), <<>>>>,
             complete |-> TRUE]

\* C15: at every flush, also when setMaxBandwidth changes iAudioFrames between
\* the frames of a burst: in Opus mode the encoder is given iBufferedFrames ==
\* iAudioFrames frames (the Q_ASSERT), qlFrames holds exactly one frame (the
\* assert of flushCheck) and the packet spans iAudioFrames x 10 ms; in legacy
\* mode the packet carries at least 1 and at most iAudioFrames sub-frames.
C15_FlushFrameCounts ==
    (lastFrame.packets # <<>>) =>
        IF lastPacket.usedCodec = "Opus"
          THEN /\ lastFrame.opusFrames = lastFrame.audioFrames
               /\ Len(lastPacket.queued) = 1
               /\ Len(lastPacket.payload) = lastPacket.audioFrames
          ELSE /\ lastPacket.frames >= 1
               /\ lastPacket.frames <= lastPacket.audioFrames

\* C16: the frame_number of emitted packets only grows over the whole life of
\* the pipeline, long silences included: each packet has a frame_number
\* strictly greater than that of the packet before it.
C16_FrameNumbersIncrease ==
    [][(FrameStep /\ Emits /\ lastPacket # NoPacket) =>
            lastPacket'.frameNumber > lastPacket.frameNumber]_vars

\* C16 as amended: ... strictly greater than that of the packet before it,
\* unless more than 500 frames in a row were not speech between the two
\* packets (encodeAudioFrame then sets iFrameCounter back to 0).
C16_FrameNumbersIncreaseUnlessReset ==
    [][(FrameStep /\ Emits /\ lastPacket # NoPacket) =>
            \/ lastPacket'.frameNumber > lastPacket.frameNumber
            \/ hist.resetSincePacket
            \/ lastFrame'.reset]_vars

\* packets have been emitted before and after a silence of more than 500
\* frames
C16_Witness ==
    /\ nFrames > SilentLimit + 2
    /\ hist.resets
    /\ lastFrame.packets = <<lastPacket>>
    /\ lastFrame.speech
    /\ lastPacket.frameNumber = 0

\* continuous transmission, never muted, Opus, iAudioFrames never changed
ContinuousOpus ==
    /\ env.atTransmit = "Continuous"
    /\ env.mutes = {NoMute}
    /\ env.opuses = {TRUE}
    /\ env.caps = {}

\* C17: continuous transmission, not muted, Opus, iAudioFrames = N, the
\* encoder succeeding: after k*N frames exactly k packets have been emitted,
\* none is a terminator, and the frame_number of consecutive packets grows by
\* exactly N.
C17_ContinuousOpusPackets ==
    [][(FrameStep /\ ContinuousOpus /\ ~hist'.failed) =>
            /\ nPackets' = nFrames' \div iAudioFrames
            /\ Emits <=> nFrames' % iAudioFrames = 0
            /\ Emits =>
                  /\ Len(lastFrame'.packets) = 1
                  /\ ~lastPacket'.isLastFrame
                  /\ lastPacket'.usedCodec = "Opus"
                  /\ lastPacket'.frames = iAudioFrames
                  /\ lastPacket'.frameNumber =
                        IF lastPacket = NoPacket THEN 0
                        ELSE lastPacket.frameNumber + iAudioFrames]_vars

\* the third packet of a continuous Opus stream with two frames per packet
C17_Witness ==
    /\ ContinuousOpus
    /\ ~hist.failed
    /\ iAudioFrames = 2
    /\ nFrames = 6
    /\ nPackets = 3
    /\ lastFrame.packets = <<lastPacket>>
    /\ lastPacket.frameNumber = 4

\* voice activity detection alone decides: no hold, no key, no mute
VadNoHold ==
    /\ env.atTransmit = "VAD"
    /\ env.iVoiceHold = 0
    /\ env.keys = {FALSE} /\ env.dbls = {NoDouble} /\ env.apis = {FALSE}
    /\ env.mutes = {NoMute}

VadOnly ==
    /\ env.atTransmit = "VAD"
    /\ env.keys = {FALSE} /\ env.dbls = {NoDouble} /\ env.apis = {FALSE}
    /\ env.mutes = {NoMute}

\* C19: voice hold: on a frame whose hysteresis decision is not-speech,
\* is_speech is forced true and hold_frames incremented if hold_frames <
\* voice_hold, so that exactly voice_hold further frames are transmitted as
\* speech after the level fell, and is_speech is false from then on; a frame
\* whose hysteresis decision is speech resets hold_frames to 0.
C19_VoiceHoldFrames ==
    [][(FrameStep /\ VadOnly) =>
         /\ (~lastFrame'.vad /\ iHoldFrames < env.iVoiceHold) =>
                /\ lastFrame'.speech
                /\ iHoldFrames' = iHoldFrames + 1
         /\ (~lastFrame'.vad /\ iHoldFrames >= env.iVoiceHold) =>
                ~lastFrame'.speech
         /\ lastFrame'.vad => iHoldFrames' = 0]_vars

\* C20: voice activity with voice_hold = 10 on a freshly constructed
\* pipeline, silence followed by speech: no packet is emitted for the frames
\* before the first frame whose level exceeds vad_max, and the first packet's
\* frame_number is that of this first speech frame.
C20_NoPacketBeforeSpeech ==
    [][(FrameStep /\ VadOnly /\ env.iVoiceHold = 10) =>
         /\ ~hist'.loud => ~Emits
         /\ (Emits /\ lastPacket = NoPacket) =>
                lastPacket'.frameNumber = hist'.firstLoud - 1]_vars

\* C21: while self-mute, server mute or suppress (outside local loopback),
\* push-to-mute or a negative voice target is in effect, every frame has
\* is_speech false whatever the level, the transmit mode, the API override
\* and the keys, talking_while_muted is what is_speech would have been, the
\* talking state is Passive, and after at most one terminator packet closing
\* the burst in progress no packet is emitted while the condition lasts.
C21_MutedFramesSilent ==
    [][(FrameStep /\ MuteCondition(lastFrame'.in)) =>
         /\ ~lastFrame'.speech
         /\ lastFrame'.talkingWhenMuted =
                TransmitMode(lastFrame'.in, lastFrame'.held)
         /\ lastFrame'.talking \in {"Passive", "unset"}
         /\ lastFrame'.in.mute.user # "none" => lastFrame'.talking = "Passive"
         /\ hist'.mutePackets <= 1
         /\ Emits =>
               /\ lastFrame'.prev
               /\ Len(lastFrame'.packets) = 1
               /\ lastPacket'.isLastFrame]_vars

\* push-to-mute alone is in effect with a key held, the burst that was in
\* progress has been closed by its terminator and this frame emits nothing
C21_Witness ==
    /\ lastFrame.in.mute = [NoMute EXCEPT !.bPushToMute = TRUE]
    /\ lastFrame.in.key
    /\ lastFrame.talkingWhenMuted
    /\ hist.mutePackets = 1
    /\ lastFrame.packets = <<>>
    /\ lastPacket.isLastFrame

\* C22: selectCodec never switches codec in the middle of a burst: on any
\* frame where bPreviousVoice is true, m_codec after selectCodec equals its
\* value before, whatever the server advertisement, the user preference and
\* the loopback mode have become.
C22_NoSwitchMidBurst ==
    [][(FrameStep /\ bPreviousVoice) => m_codec' = m_codec]_vars

\* C22 as amended: on a frame where bPreviousVoice is true selectCodec never
\* switches between Opus and CELT; m_codec may change between CELT_Alpha and
\* CELT_Beta.
C22_NoOpusCeltSwitchMidBurst ==
    [][(FrameStep /\ bPreviousVoice) =>
            /\ (m_codec' = "Opus") <=> (m_codec = "Opus")
            /\ m_codec' \in {"Opus", "CELT_Alpha", "CELT_Beta"}]_vars

\* in the middle of a burst the server has withdrawn Opus (or offered it) and
\* the frame was encoded with the codec of the burst
C22_Witness ==
    /\ lastFrame.prev
    /\ lastFrame.speech
    /\ lastFrame.exit = "end"
    /\ lastFrame.in.opus # (lastFrame.codec = "Opus")
    /\ ~lastFrame.in.local
    /\ lastFrame.codec = lastFrame.codecBefore

\* the frames a packet carries: the entries of the Opus source, or the bytes
\* of the CELT sub-frames (every byte of a sub-frame is the number of its frame)
PacketFrames(pk) ==
    UNION {{pk.queued[i][j] : j \in 1..Len(pk.queued[i])} : i \in 1..Len(pk.queued)}

\* C23: whenever selectCodec changes m_codec, iBufferedFrames is set to 0 and
\* qlFrames and opusBuffer are emptied before the frame is encoded, so that no
\* packet mixes frames of two codecs; and on every frame that starts with
\* bPreviousVoice false, iBufferedFrames is 0 and qlFrames and opusBuffer are
\* already empty.
C23_BuffersEmptyAtSwitch ==
    [][FrameStep =>
         /\ m_codec' # m_codec =>
               /\ iBufferedFrames' <= 1
               /\ Len(qlFrames') <= 1
               /\ Len(opusBuffer') <= 1
         /\ Emits =>
               \A f \in PacketFrames(lastPacket') : f = 0 \/ f >= hist'.switchFid
         /\ ~bPreviousVoice =>
               /\ iBufferedFrames = 0
               /\ qlFrames = <<>>
               /\ opusBuffer = <<>>]_vars

\* the flag is up after the frame, or the encoder state was reset in it
ResetRaised == lastFrame'.encReset \/ bResetEncoder'

\* C24: bResetEncoder is raised, and the encoder state therefore reset before
\* the next frame is encoded, after a codec switch by selectCodec, on the
\* first speech frame following silence, and after a change of iAudioQuality
\* by setMaxBandwidth; the encode that performs the reset clears the flag.
C24_ResetFlagRaised ==
    [][/\ (FrameStep /\ m_codec' # m_codec) => ResetRaised
       /\ (FrameStep /\ lastFrame'.speech /\ ~bPreviousVoice) => ResetRaised
       /\ (iAudioQuality' # iAudioQuality /\ aiExists /\ aiExists') => bResetEncoder'
       /\ (FrameStep /\ lastFrame'.encReset) => ~bResetEncoder']_vars

\* C24 as amended: the flag is raised on the first speech frame following
\* silence, which is also the only frame on which selectCodec switches
\* between Opus and CELT; setMaxBandwidth leaves the flag as it is; the encode
\* that performs the reset clears the flag.
C24_ResetFlagAtBurstStart ==
    [][/\ (FrameStep /\ ((m_codec' = "Opus") # (m_codec = "Opus"))) =>
              (ResetRaised /\ lastFrame'.speech /\ ~bPreviousVoice)
       /\ (FrameStep /\ lastFrame'.speech /\ ~bPreviousVoice) => ResetRaised
       /\ (nFrames' = nFrames) => bResetEncoder' = bResetEncoder
       /\ (FrameStep /\ lastFrame'.encReset) => ~bResetEncoder']_vars

\* a later burst starts with a switch from CELT to Opus after the server
\* changed the bitrate, and its first encode resets the encoder
C24_Witness ==
    /\ lastFrame.fid >= 3
    /\ lastFrame.speech
    /\ ~lastFrame.prev
    /\ lastFrame.codecBefore # "Opus"
    /\ lastFrame.codec = "Opus"
    /\ lastFrame.encReset
    /\ ~bResetEncoder
    /\ iAudioQuality # sQuality

\* C25: when the encoder returns a non-positive length, for Opus and for CELT
\* alike, no packet is emitted for the frame, iBitrate is 0, iBufferedFrames
\* is reset to 0, and the following frame is processed normally.
C25_EncoderFailureDropsFrame ==
    [][FrameStep =>
         /\ lastFrame'.exit = "encoder" =>
               /\ ~Emits
               /\ iBitrate' = 0
               /\ iBufferedFrames' = 0
         /\ (lastFrame.exit = "encoder" /\ ~lastFrame'.in.fail) =>
               lastFrame'.exit \in {"end", "quiet", "codec"}]_vars

\* C26: idle_action = Deafen, uninterrupted silence (is_speech and
\* was_speech_previous false on every frame): once the silence has lasted
\* longer than idle_time and the user is not deafened exactly one deafen
\* intent is emitted and the activity state becomes Idle; no deafen intent is
\* emitted before that, nor while the silence continues and the user stays
\* deafened.
C26_IdleDeafenOnce ==
    [][(/\ FrameStep
        /\ env.iaeIdleAction = "Deafen"
        /\ lastFrame'.exit = "quiet"
        /\ activityState # "ReturnedFromIdle") =>
         LET elapsed == tIdle + lastFrame'.in.dt
         IN  /\ (elapsed > env.iIdleTime /\ ~lastFrame'.in.deaf) =>
                   /\ lastFrame'.intents = <<"doDeaf">>
                   /\ hist'.nDeaf = hist.nDeaf + 1
                   /\ activityState' = "Idle"
                   /\ tIdle' = 0
             /\ (elapsed > env.iIdleTime /\ lastFrame'.in.deaf) =>
                   /\ lastFrame'.intents = <<>>
                   /\ activityState' = "Idle"
             /\ elapsed <= env.iIdleTime =>
                   /\ lastFrame'.intents = <<>>
                   /\ activityState' = activityState]_vars

\* the idle time of 2 s has passed in silence, one deafen intent was emitted,
\* and the silence goes on with the user deafened and the timer past 0
C26_Witness ==
    /\ env.iaeIdleAction = "Deafen"
    /\ env.iIdleTime = 2
    /\ hist.burst = 0 /\ nPackets = 0
    /\ hist.nDeaf = 1
    /\ activityState = "Idle"
    /\ lastFrame.exit = "quiet"
    /\ lastFrame.in.deaf
    /\ lastFrame.intents = <<>>
    /\ tIdle = 1

\* the idle action was Deafen, the capture has gone idle and the user is
\* deafened
IdleDeafened ==
    /\ env.iaeIdleAction = "Deafen"
    /\ activityState \in {"Idle", "ReturnedFromIdle"}
    /\ lastFrame'.in.deaf

\* C27: after the idle action has deafened the user, when speech resumes (a
\* frame with is_speech true) and undo_idle_on_activity is true, exactly one
\* un-deafen intent is emitted and the activity state returns to Active; with
\* undo_idle_on_activity false no intent is emitted.
C27_UndoOnSpeech ==
    [][(FrameStep /\ IdleDeafened /\ lastFrame'.speech) =>
         IF env.bUndoIdleActionUponActivity
           THEN lastFrame'.intents = <<"doDeaf">> /\ activityState' = "Active"
           ELSE lastFrame'.intents = <<>>]_vars

\* C27 as amended: after the idle action has deafened the user and the
\* activity state has been set to ReturnedFromIdle, the next frame with
\* is_speech and was_speech_previous false on which the idle time has not
\* passed again returns the activity state to Active and emits exactly one
\* un-deafen intent if undo_idle_on_activity is true, none if it is false; a
\* frame with is_speech true emits no intent and leaves the activity state.
C27_UndoOnReturnFromIdle ==
    [][(FrameStep /\ IdleDeafened) =>
         /\ lastFrame'.exit # "quiet" =>
               /\ lastFrame'.intents = <<>>
               /\ activityState' = activityState
         /\ (/\ lastFrame'.exit = "quiet"
             /\ ~lastFrame'.expired
             /\ activityState = "ReturnedFromIdle") =>
               /\ activityState' = "Active"
               /\ lastFrame'.intents = IF env.bUndoIdleActionUponActivity
                                         THEN <<"doDeaf">> ELSE <<>>
         /\ (/\ lastFrame'.exit = "quiet"
             /\ ~lastFrame'.expired
             /\ activityState = "Idle") =>
               /\ activityState' = "Idle"
               /\ lastFrame'.intents = <<>>]_vars

\* the idle action deafened the user, the activity state was set to
\* ReturnedFromIdle and a silent frame emitted the un-deafen intent
C27_Witness ==
    /\ env.iaeIdleAction = "Deafen"
    /\ env.bUndoIdleActionUponActivity
    /\ lastFrame.activityBefore = "ReturnedFromIdle"
    /\ lastFrame.in.deaf
    /\ lastFrame.exit = "quiet"
    /\ lastFrame.intents = <<"doDeaf">>
    /\ hist.nDeaf = 2
    /\ activityState = "Active"

\* the priorities of the registered backends
RegisteredPriorities(map) == {regs[map[k]].priority : k \in DOMAIN map}

\* C28: newFromChoice(choice), after any sequence of registrations and
\* de-registrations, creates the backend named choice if choice is non-empty
\* and registered (and stores it as the saved setting), otherwise the backend
\* named by the saved setting if registered, otherwise the registered backend
\* of highest priority; it returns an absent capture object exactly when no
\* backend is registered; whenever it returns a capture object, current is
\* the name of the backend whose factory was invoked.
C28_NewFromChoice ==
    [][(\E choice \in 0..MaxName : NewFromChoice(choice)) =>
         LET choice == lastNew'.choice
             made == lastNew'.created
         IN  /\ (made = 0) <=> (Registered = {})
             /\ made # 0 =>
                   /\ regs[made].alive
                   /\ regs[made].name \in Registered
                   /\ qmNew.map[regs[made].name] = made
                   /\ current' = regs[made].name
             /\ (choice # 0 /\ choice \in Registered) =>
                   /\ made = qmNew.map[choice]
                   /\ qsAudioInput' = choice
             /\ (~(choice # 0 /\ choice \in Registered)
                   /\ qsAudioInput \in Registered) =>
                   made = qmNew.map[qsAudioInput]
             /\ (~(choice # 0 /\ choice \in Registered)
                   /\ qsAudioInput \notin Registered /\ Registered # {}) =>
                   \A p \in RegisteredPriorities(qmNew.map) : p <= regs[made].priority]_vars

\* neither the choice nor the saved setting is registered, two backends of
\* different priority are, and the one of higher priority, which is not the
\* first of the map, was created
C28_Witness ==
    /\ lastNew.created # 0
    /\ lastNew.choice \notin Registered
    /\ lastNew.setting \notin Registered
    /\ Cardinality(Registered) = 2
    /\ \E k \in Registered :
          /\ k < regs[lastNew.created].name
          /\ regs[qmNew.map[k]].priority < regs[lastNew.created].priority
    /\ current = regs[lastNew.created].name

\* C29: in push-to-talk mode without API-forced activation, is_speech before
\* mute handling does not depend on the level or the hold: it is true exactly
\* when a key is held (iPushToTalk > 0) or the double-push latch is armed
\* (s.uiDoublePush > 0 and the measured interval or the time elapsed is below
\* s.uiDoublePush); with s.uiDoublePush = 0 and no key held it is false.
C29_PushToTalkSpeech ==
    [][(FrameStep /\ env.atTransmit = "PushToTalk" /\ ~lastFrame'.in.api) =>
         LET d == lastFrame'.in.dbl
             armed == d.s > 0 /\ (d.g < d.s \/ d.elapsed < d.s)
         IN  /\ lastFrame'.wanted <=> (lastFrame'.in.key \/ armed)
             /\ (d.s = 0 /\ ~lastFrame'.in.key) => ~lastFrame'.wanted
             /\ lastFrame'.speech = lastFrame'.wanted]_vars

\* the second frame, silent and with no key held, is speech because less
\* than s.uiDoublePush has elapsed since the double push; the first frame was
\* not speech
C29_Witness ==
    /\ env.atTransmit = "PushToTalk"
    /\ env.iVoiceHold = 2
    /\ ~lastFrame.in.api /\ ~lastFrame.in.key
    /\ lastFrame.in.level = 0
    /\ lastFrame.in.dbl = [s |-> 2, g |-> 3, elapsed |-> 1]
    /\ lastFrame.speech
    /\ ~lastFrame.prev
    /\ lastFrame.fid = 2

\* C30: on overflow the resynchronizer drops the oldest frame, not the new
\* one: addMic in state S4b or S5 appends the new frame at the tail, releases
\* the frame at the head and leaves the state and the queue length
\* unchanged; addMic in any other state releases nothing.
C30_OverflowDropsOldest ==
    [][micCount' = micCount + 1 =>
         IF state \in {"S4b", "S5"}
           THEN /\ micQueue # <<>>
                /\ micQueue' = Append(Tail(micQueue), micCount')
                /\ micFreed' = [micFreed EXCEPT ![Head(micQueue)] = @ + 1]
                /\ micFreed[Head(micQueue)] = 0
                /\ micFreed'[micCount'] = 0
                /\ state' = state
                /\ Len(micQueue') = Len(micQueue)
                /\ nDropMic' = nDropMic + 1
           ELSE /\ micQueue' = Append(micQueue, micCount')
                /\ micFreed' = micFreed
                /\ nDropMic' = nDropMic]_vars

\* addMic in S4b has released the oldest of the queued frames and queued the
\* new one behind the others
C30_Witness ==
    /\ last.op = "addMic"
    /\ last.pre = "S4b"
    /\ state = "S4b"
    /\ Len(last.q) >= 2
    /\ last.freed = {Head(last.q)}
    /\ micQueue = Append(Tail(last.q), last.arg)
    /\ micFreed[Head(last.q)] = 1

(***************************************************************************)
(* The mutex of the resynchronizer, checked under SpecResync.              *)
(***************************************************************************)
\* the queue depth that the switch statements of addMic and addSpeaker keep
\* for each state
Depth(s) ==
    CASE s = "S0" -> 0 [] s = "S1a" -> 1 [] s = "S1b" -> 1 [] s = "S2" -> 2
      [] s = "S3" -> 3 [] s = "S4a" -> 4 [] s = "S4b" -> 4 [] s = "S5" -> 5

\* C31: addMic, addSpeaker and reset each run entirely under the one mutex, so
\* for every interleaving of the mic thread, the speaker thread and reset,
\* whenever the mutex is free the length of the mic queue is the depth of the
\* state: 0 in S0, 1 in S1a and S1b, 2 in S2, 3 in S3, 4 in S4a and S4b, 5 in S5.
C31_QueueLengthByState == Len(micQueue) = Depth(state)

\* the three callers have interleaved: reset has emptied a queue that held
\* frames, the mic thread has filled it again to S5 and the speaker thread has
\* taken one frame of the five
C31_Witness ==
    /\ nResetFreed >= 1
    /\ last.op = "addSpeaker"
    /\ last.pre = "S5"
    /\ state = "S4b"
    /\ Len(micQueue) = 4

(***************************************************************************)
(* Aligned streams: the two device threads deliver their frames in turn,   *)
(* the mic frame first, and the speaker thread has finished addEcho when   *)
(* the next mic frame arrives.                                             *)
(***************************************************************************)
\* AudioInput::addMic when it is the mic thread's turn
AlignedMic ==
    /\ spkPc = "idle"
    /\ micCount = spkCount
    /\ AddMic

\* AudioInput::addEcho when it is the speaker thread's turn
AlignedSpeaker ==
    /\ micCount = spkCount + 1
    /\ AddSpeaker

NextAligned ==
    \/ AlignedMic
    \/ AlignedSpeaker
    \/ AddSpeakerReturn
    \/ EncodeAudioFrame
    \/ FreeChunk
    \/ InitializeMixer

\* echo cancellation on; the pairs are encoded under voice activity or
\* continuous transmission, the user muted or not, a whisper key held or not
AlignedEnvs ==
    {[EchoEnv EXCEPT !.atTransmit = t, !.mutes = {m}, !.keys = BOOLEAN] :
        t \in {"VAD", "Continuous"}, m \in {NoMute, SelfMute}}

InitAligned ==
    /\ InitResyncVars
    /\ InitBwFixed
    /\ env \in AlignedEnvs
    /\ InitEncFields
    /\ InitReg

SpecAligned == InitAligned /\ [][NextAligned]_vars

\* the speaker frame arriving now is the first one since the resynchronizer
\* was in S0: the call before it was an addMic in S0
FirstSpeaker == last.op = "addMic" /\ last.pre = "S0"

\* C32: from S0 with strictly alternating arrivals mic, speaker, mic, ...
\* exactly one speaker frame, the first, is dropped; from then on the state
\* alternates between S2 (after a mic frame) and S1b (after a speaker frame),
\* every speaker arrival emits a pair, no mic frame is dropped and the mic
\* queue never holds more than the nominal lag of 2 frames.
C32_AlignedSteadyState ==
    [][/\ Len(micQueue') <= 2
       /\ micCount' # micCount =>
            /\ last'.freed = {}
            /\ nDropMic' = nDropMic
            /\ state' = IF state = "S0" THEN "S1a" ELSE "S2"
       /\ spkCount' # spkCount =>
            IF FirstSpeaker
              THEN /\ state = "S1a" /\ state' = "S1a"
                   /\ nDropSpk' = nDropSpk + 1
                   /\ nPairs' = nPairs
                   /\ chunk' = EmptyChunk
              ELSE /\ state = "S2" /\ state' = "S1b"
                   /\ nDropSpk' = nDropSpk
                   /\ nPairs' = nPairs + 1
                   /\ chunk' = [mic |-> Head(micQueue), speaker |-> spkCount']
                   /\ micQueue' = Tail(micQueue)]_vars

\* the steady state: since the resynchronizer was last in S0 one speaker
\* frame has been dropped and three pairs have been emitted in a row, and the
\* state is S1b with one frame queued
C32_Witness ==
    /\ state = "S1b"
    /\ last.op = "addSpeaker"
    /\ last.pre = "S2"
    /\ ~bResetProcessor
    /\ nResetFreed = 1
    /\ nDropSpk = 2
    /\ nPairs = 4
    /\ Len(micQueue) = 1

(***************************************************************************)
(* The processor reset, checked under SpecAligned.                         *)
(***************************************************************************)
\* position of the call c among the calls of the last frame (0: not made)
StepAt(steps, c) ==
    IF \E i \in 1..Len(steps) : steps[i] = c
      THEN CHOOSE i \in 1..Len(steps) : steps[i] = c
      ELSE 0

\* C33: when bResetProcessor is raised, the next encodeAudioFrame call
\* reinitialises the preprocessor and the echo state before the echo
\* cancellation and the preprocessing of that frame, resets the resynchronizer
\* to S0 with an empty queue, raises bResetEncoder and clears bResetProcessor;
\* a frame processed while bResetProcessor is false reinitialises nothing and
\* leaves the resynchronizer untouched.
C33_ResetDiscipline ==
    [][nFrames' # nFrames =>
         LET steps == lastFrame'.steps
             at(c) == StepAt(steps, c)
         IN  IF bResetProcessor
               THEN /\ at("speex_preprocess_state_init") > 0
                    /\ at("speex_preprocess_state_init") < at("speex_preprocess_run")
                    /\ env.echo =>
                         /\ at("speex_echo_state_init_mc") > 0
                         /\ at("speex_echo_state_init_mc") < at("speex_echo_cancellation")
                    /\ state' = "S0"
                    /\ micQueue' = <<>>
                    /\ \A i \in 1..Len(micQueue) : micFreed'[micQueue[i]] = 1
                    /\ bResetEncoder' \/ lastFrame'.encReset
                    /\ ~bResetProcessor'
               ELSE /\ at("speex_preprocess_state_init") = 0
                    /\ at("speex_echo_state_init_mc") = 0
                    /\ at("resync.reset") = 0
                    /\ state' = state
                    /\ micQueue' = micQueue
                    /\ micFreed' = micFreed
                    /\ ~bResetProcessor']_vars

\* initializeMixer raised the flag after the encoder had consumed the reset
\* of the construction; the frame after it found a frame queued, released it
\* and reset the encoder again
C33_Witness ==
    /\ lastFrame.fid >= 2
    /\ StepAt(lastFrame.steps, "resync.reset") > 0
    /\ lastFrame.encReset
    /\ last.op = "reset"
    /\ last.pre = "S1b"
    /\ Len(last.q) = 1
    /\ state = "S0"
    /\ ~bResetProcessor

(***************************************************************************)
(* The control thread writes s.lmLoopMode while a frame is encoded.        *)
(***************************************************************************)
\* the user is muted by the server
ServerMute == [NoMute EXCEPT !.user = "muted"]

\* continuous transmission, one frame per packet; the loop mode changes
\* between the reads of one frame, or does not
TearEnvs ==
    {[BaseEnv EXCEPT !.atTransmit = "Continuous", !.mutes = {NoMute, ServerMute},
                     !.locals = BOOLEAN, !.opuses = o,
                     !.addrs = LoopModes \cup {"asread"},
                     !.sinks = LoopModes \cup {"asread"},
                     !.budget = MaxTearFrames] :
        o \in {{TRUE}, {FALSE}}}

InitTear ==
    /\ InitResyncVars
    /\ sQuality = 64000
    /\ sFrames = 1
    /\ env \in TearEnvs
    /\ InitCapture
    /\ InitEncFields
    /\ InitReg

SpecTear == InitTear /\ [][NextSilence]_vars

\* C34: within one encodeAudioFrame call each setting is read at most once,
\* so no frame acts on two values of the loop mode: a frame that saw Local at
\* the mute check (and skipped the server mute test) hands its packet to the
\* local loop, a frame that saw another mode hands it to the transport, and
\* a packet addressed to the server loopback is not handed to the local loop.
C34_NoMidFrameTearing ==
    LET f == lastFrame
    IN  f.dispatch.sink # "none" =>
          /\ f.in.local <=> f.dispatch.sink = "loop"
          /\ f.dispatch.loopback => f.dispatch.sink = "transport"

(***************************************************************************)
(* The governor only degrades, checked under SpecBandwidth.                *)
(***************************************************************************)
\* C35: for every cap, -1 included, adjustBandwidth returns a bitrate with
\* 8000 <= bitrate <= max(8000, s.iQuality) and frames >= s.iFramesPerPacket;
\* when the cap is -1 or the user's settings fit under it, frames is the
\* setting and bitrate is max(8000, s.iQuality). (A capture object holds what
\* adjustBandwidth returned for the stored cap.)
C35_OnlyDegrades ==
    aiExists =>
        /\ iAudioQuality >= 8000
        /\ iAudioQuality <= Max(8000, sQuality)
        /\ iAudioFrames >= sFrames
        /\ (iMaxBandwidth = -1 \/ GetNetworkBandwidth(sQuality, sFrames) <= iMaxBandwidth) =>
              /\ iAudioFrames = sFrames
              /\ iAudioQuality = Max(8000, sQuality)

\* a cap of 48000 has degraded 2 frames per packet to 4 and lowered the
\* bitrate, but not to the floor
C35_Witness ==
    /\ aiExists
    /\ lastBw.op = "setMaxBandwidth"
    /\ iMaxBandwidth = 48000
    /\ sFrames = 2
    /\ iAudioFrames = 4
    /\ iAudioQuality < sQuality
    /\ iAudioQuality > 8000

(***************************************************************************)
(* Quiet frames, checked under SpecAligned.                                *)
(***************************************************************************)
\* the step is a frame with bIsSpeech false and bPreviousVoice false
QuietFrame == nFrames' # nFrames /\ ~lastFrame'.speech /\ ~bPreviousVoice

\* what C36 says of a quiet frame but for bResetEncoder: the function returns
\* before selectCodec and the encoders, emits nothing and leaves the framing
\* fields alone; iBitrate is 0
QuietNoFraming ==
    /\ lastFrame'.exit = "quiet"
    /\ lastFrame'.packets = <<>>
    /\ nPackets' = nPackets
    /\ ~lastFrame'.encReset
    /\ lastFrame'.opusFrames = 0
    /\ cCodec' = cCodec
    /\ iBufferedFrames' = iBufferedFrames
    /\ qlFrames' = qlFrames
    /\ opusBuffer' = opusBuffer
    /\ m_codec' = m_codec
    /\ bPreviousVoice' = bPreviousVoice
    /\ iBitrate' = 0

\* C36 as stated: a frame processed with is_speech false while
\* was_speech_previous is false calls neither selectCodec nor the encoder,
\* emits no packet and leaves iBufferedFrames, qlFrames, opusBuffer, m_codec,
\* bResetEncoder and bPreviousVoice unchanged; iBitrate is set to 0.
C36_QuietFrameNoOp ==
    [][QuietFrame => (QuietNoFraming /\ bResetEncoder' = bResetEncoder)]_vars

\* C36 amended: as stated, but bResetEncoder is raised when the frame finds
\* bResetProcessor raised, and is unchanged otherwise.
C36_QuietFrameNoOpButReset ==
    [][QuietFrame =>
         (QuietNoFraming /\ bResetEncoder' = (bResetEncoder \/ bResetProcessor))]_vars

\* a quiet frame has carried out a reset that initializeMixer asked for after
\* the encoder had run: bResetEncoder was false before the frame and is true
\* after it
C36_Witness ==
    /\ lastFrame.exit = "quiet"
    /\ ~lastFrame.speech
    /\ ~lastFrame.prev
    /\ StepAt(lastFrame.steps, "resync.reset") > 0
    /\ ~lastFrame.resetEncoderBefore
    /\ bResetEncoder
    /\ nPackets >= 1

(***************************************************************************)
(* Failures at the end of a burst, checked under SpecEncode.               *)
(***************************************************************************)
\* C37: if selectCodec fails or the encoder returns a non-positive length on
\* a frame with is_speech false while bPreviousVoice is true, bPreviousVoice
\* stays true and nothing is emitted, so the following silent frame attempts
\* the terminator again; as soon as the encode succeeds exactly one packet,
\* a terminator, is emitted and bPreviousVoice becomes false.
C37_TerminatorRetried ==
    [][(nFrames' # nFrames /\ ~lastFrame'.speech /\ bPreviousVoice) =>
         /\ lastFrame'.exit # "quiet"
         /\ IF lastFrame'.exit \in {"codec", "encoder"}
              THEN /\ bPreviousVoice'
                   /\ lastFrame'.packets = <<>>
                   /\ nPackets' = nPackets
              ELSE /\ ~bPreviousVoice'
                   /\ Len(lastFrame'.packets) = 1
                   /\ lastFrame'.packets[1].isLastFrame
                   /\ nPackets' = nPackets + 1]_vars

\* the terminator has been emitted on the third attempt, after failures on
\* the frame where speech ended and on the silent frame after it
C37_Witness ==
    /\ ~lastFrame.speech
    /\ lastFrame.prev
    /\ hist.termFails = 2
    /\ lastFrame.exit = "end"
    /\ Len(lastFrame.packets) = 1
    /\ lastPacket.isLastFrame
    /\ ~bPreviousVoice

(***************************************************************************)
(* Counters and accumulators, checked under SpecEncode.                    *)
(***************************************************************************)
\* C38: after every encodeAudioFrame call, whatever the sequence of speech,
\* silence, codec switches and encoder failures, and with iAudioFrames as the
\* constructor set it (no setMaxBandwidth call since): in legacy mode
\* iBufferedFrames is the number of frames in qlFrames; in Opus mode qlFrames
\* is empty and opusBuffer holds iBufferedFrames frames of iFrameSize samples;
\* and iBufferedFrames < iAudioFrames.
C38_CountersConsistent ==
    lastBw.op = "init" =>
        /\ m_codec \in {"CELT_Alpha", "CELT_Beta"} => iBufferedFrames = Len(qlFrames)
        /\ m_codec = "Opus" =>
              /\ qlFrames = <<>>
              /\ Len(opusBuffer) = iBufferedFrames
        /\ iBufferedFrames < iAudioFrames

\* a CELT burst holds two encoded frames of a packet of six after the
\* encoder has failed on an earlier frame
C38_Witness ==
    /\ lastBw.op = "init"
    /\ m_codec = "CELT_Alpha"
    /\ hist.failed
    /\ bPreviousVoice
    /\ iAudioFrames = 6
    /\ iBufferedFrames = 2
    /\ Len(qlFrames) = 2

====
